---- MODULE Spec2Model ----
(***************************************************************************)
(* A model of the memory-management simulator: the contiguous free-list    *)
(* allocator (MemoryManager), the buddy allocator (BuddyAllocator), the    *)
(* demand-paged virtual memory (VirtualMemorySimulator), one cache level   *)
(* (Cache) and the cache hierarchy (CacheHierarchy).                       *)
(*                                                                         *)
(* Every object of the program is one variable holding a record whose      *)
(* fields carry the names of the object's data members.  Every public      *)
(* method is one action; the private helpers are operators computed the    *)
(* way the code computes them.  Each component has its own specification   *)
(* (SpecAlloc, SpecBuddy, ...), in which the other objects stay as         *)
(* constructed.                                                            *)
(***************************************************************************)
EXTENDS Integers, Sequences, FiniteSets, TLC

VARIABLES
    mm,      \* the MemoryManager object (contiguous allocator)
    buddy,   \* the BuddyAllocator object
    vm,      \* the VirtualMemorySimulator object
    cache,   \* a Cache object (one level) used on its own
    hier,    \* the CacheHierarchy object
    probes,  \* the read and write calls the hierarchy has made on each level
    ret      \* the last call made: its name, its argument and what it returned

vars == <<mm, buddy, vm, cache, hier, probes, ret>>

NoCall == [op |-> "none", arg |-> 0, result |-> 0]

(***************************************************************************)
(* Bounds of the model.                                                    *)
(***************************************************************************)
\* allocate calls made on one contiguous allocator
MaxAttempts == 4
\* allocate calls made on one buddy allocator
MaxAllocations == 3
\* translateAddress calls made on a simulator between two resets, and the
\* access_count an entry is brought to (reset leaves the memory after the
\* page table as it is)
MaxAccesses == 4
\* the value access_counter of a cache level is brought to between two clears
MaxLevelAccesses == 3
\* read and write calls made on a hierarchy between two clearAll calls
MaxHierAccesses == 4
\* read, write and insert calls made on a level of the worked examples
\* between two clear calls
MaxSeedAccesses == 4

RECURSIVE SumSeq(_)
SumSeq(s) == IF s = <<>> THEN 0 ELSE Head(s) + SumSeq(Tail(s))

(***************************************************************************)
(* CONTIGUOUS ALLOCATOR  (src/src/allocator/memory_allocator.cpp)          *)
(*                                                                         *)
(* The doubly linked list that starts at head is the sequence mm.blocks:   *)
(* blocks[1] is *head, blocks[i+1] is blocks[i]->next and blocks[i-1] is   *)
(* blocks[i]->prev.  A null pointer is the index 0.                        *)
(***************************************************************************)
FIRST_FIT == "FIRST_FIT"
BEST_FIT == "BEST_FIT"
WORST_FIT == "WORST_FIT"
AllocationStrategy == {FIRST_FIT, BEST_FIT, WORST_FIT}

\* the sizes `init memory <size>` is run with; 0 is what a missing or
\* unreadable size token leaves in the size_t
ArenaSizes == {0, 1, 5, 6}

MemoryBlock(addr, sz, alloc, id) ==
    [start_address |-> addr, size |-> sz, is_allocated |-> alloc, block_id |-> id]

MemoryManager(size) ==
    [total_memory |-> size,
     blocks |-> <<MemoryBlock(0, size, FALSE, -1)>>,
     strategy |-> FIRST_FIT,
     next_block_id |-> 1,
     allocation_attempts |-> 0,
     allocation_successes |-> 0,
     allocation_failures |-> 0]

\* the loop of findBlockFirstFit from `current` = blocks[i] on
RECURSIVE FirstFitFrom(_, _, _)
FirstFitFrom(blocks, size, i) ==
    IF i > Len(blocks) THEN 0
    ELSE IF ~blocks[i].is_allocated /\ blocks[i].size >= size THEN i
    ELSE FirstFitFrom(blocks, size, i + 1)

\* findBlockFirstFit that goes on to the end of the list: the last fit
RECURSIVE LastFitFrom(_, _, _, _)
LastFitFrom(blocks, size, i, found) ==
    IF i > Len(blocks) THEN found
    ELSE IF ~blocks[i].is_allocated /\ blocks[i].size >= size
         THEN LastFitFrom(blocks, size, i + 1, i)
    ELSE LastFitFrom(blocks, size, i + 1, found)

findBlockFirstFit_LastFit(m, size) == LastFitFrom(m.blocks, size, 1, 0)

findBlockFirstFit(m, size) == FirstFitFrom(m.blocks, size, 1)

\* the loop of findBlockBestFit from `current` = blocks[i] on, with the
\* locals best and min_diff
RECURSIVE BestFitFrom(_, _, _, _, _)
BestFitFrom(blocks, size, i, best, min_diff) ==
    IF i > Len(blocks) THEN best
    ELSE IF ~blocks[i].is_allocated /\ blocks[i].size >= size
              /\ blocks[i].size - size < min_diff
         THEN BestFitFrom(blocks, size, i + 1, i, blocks[i].size - size)
         ELSE BestFitFrom(blocks, size, i + 1, best, min_diff)

\* findBlockBestFit with diff <= min_diff: the last of the tightest blocks
RECURSIVE BestFitLastTieFrom(_, _, _, _, _)
BestFitLastTieFrom(blocks, size, i, best, min_diff) ==
    IF i > Len(blocks) THEN best
    ELSE IF ~blocks[i].is_allocated /\ blocks[i].size >= size
              /\ blocks[i].size - size <= min_diff
         THEN BestFitLastTieFrom(blocks, size, i + 1, i, blocks[i].size - size)
         ELSE BestFitLastTieFrom(blocks, size, i + 1, best, min_diff)

findBlockBestFit_LastTie(m, size) ==
    BestFitLastTieFrom(m.blocks, size, 1, 0, m.total_memory + 1)

\* findBlockBestFit that takes the first fit it meets
findBlockBestFit_FirstMet(m, size) == FirstFitFrom(m.blocks, size, 1)

findBlockBestFit(m, size) == BestFitFrom(m.blocks, size, 1, 0, m.total_memory + 1)

\* the loop of findBlockWorstFit from `current` = blocks[i] on, with the
\* locals worst and max_size
RECURSIVE WorstFitFrom(_, _, _, _, _)
WorstFitFrom(blocks, size, i, worst, max_size) ==
    IF i > Len(blocks) THEN worst
    ELSE IF ~blocks[i].is_allocated /\ blocks[i].size >= size
              /\ blocks[i].size > max_size
         THEN WorstFitFrom(blocks, size, i + 1, i, blocks[i].size)
         ELSE WorstFitFrom(blocks, size, i + 1, worst, max_size)

\* findBlockWorstFit with `>=` for `>`: the last of the largest blocks
RECURSIVE WorstFitLastTieFrom(_, _, _, _, _)
WorstFitLastTieFrom(blocks, size, i, worst, max_size) ==
    IF i > Len(blocks) THEN worst
    ELSE IF ~blocks[i].is_allocated /\ blocks[i].size >= size
              /\ blocks[i].size >= max_size
         THEN WorstFitLastTieFrom(blocks, size, i + 1, i, blocks[i].size)
         ELSE WorstFitLastTieFrom(blocks, size, i + 1, worst, max_size)

findBlockWorstFit_LastTie(m, size) == WorstFitLastTieFrom(m.blocks, size, 1, 0, 0)

findBlockWorstFit(m, size) == WorstFitFrom(m.blocks, size, 1, 0, 0)

\* the switch of allocate
findBlock(m, size) ==
    CASE m.strategy = FIRST_FIT -> findBlockFirstFit(m, size)
      [] m.strategy = BEST_FIT -> findBlockBestFit(m, size)
      [] m.strategy = WORST_FIT -> findBlockWorstFit(m, size)

\* splitBlock without its last line, block->size = size
splitBlock_NoShrink(blocks, i, size) ==
    IF blocks[i].size > size
    THEN SubSeq(blocks, 1, i - 1)
         \o <<blocks[i],
              MemoryBlock(blocks[i].start_address + size, blocks[i].size - size, FALSE, -1)>>
         \o SubSeq(blocks, i + 1, Len(blocks))
    ELSE blocks

\* splitBlock(block, size) with block = blocks[i]
splitBlock(blocks, i, size) ==
    IF blocks[i].size > size
    THEN SubSeq(blocks, 1, i - 1)
         \o <<[blocks[i] EXCEPT !.size = size],
              MemoryBlock(blocks[i].start_address + size, blocks[i].size - size, FALSE, -1)>>
         \o SubSeq(blocks, i + 1, Len(blocks))
    ELSE blocks

\* the loop of coalesceBlocks with `current` = blocks[i]
RECURSIVE CoalesceFrom(_, _)
CoalesceFrom(blocks, i) ==
    IF i >= Len(blocks) THEN blocks
    ELSE IF ~blocks[i].is_allocated /\ ~blocks[i + 1].is_allocated
         THEN CoalesceFrom(SubSeq(blocks, 1, i - 1)
                           \o <<[blocks[i] EXCEPT !.size = @ + blocks[i + 1].size]>>
                           \o SubSeq(blocks, i + 2, Len(blocks)), i)
         ELSE CoalesceFrom(blocks, i + 1)

\* coalesceBlocks without the `continue`: after a merge the scan moves on
RECURSIVE CoalesceAdvancing(_, _)
CoalesceAdvancing(blocks, i) ==
    IF i >= Len(blocks) THEN blocks
    ELSE IF ~blocks[i].is_allocated /\ ~blocks[i + 1].is_allocated
         THEN CoalesceAdvancing(SubSeq(blocks, 1, i - 1)
                                \o <<[blocks[i] EXCEPT !.size = @ + blocks[i + 1].size]>>
                                \o SubSeq(blocks, i + 2, Len(blocks)), i + 1)
         ELSE CoalesceAdvancing(blocks, i + 1)

coalesceBlocks_NoRescan(blocks) == CoalesceAdvancing(blocks, 1)

coalesceBlocks(blocks) == CoalesceFrom(blocks, 1)

\* the loop of deallocate without the is_allocated test: the first block
\* that carries block_id, free or not
RECURSIVE FindAllocated_AnyBlock(_, _, _)
FindAllocated_AnyBlock(blocks, block_id, i) ==
    IF i > Len(blocks) THEN 0
    ELSE IF blocks[i].block_id = block_id THEN i
    ELSE FindAllocated_AnyBlock(blocks, block_id, i + 1)

\* the loop of deallocate: the first allocated block that carries block_id
RECURSIVE FindAllocated(_, _, _)
FindAllocated(blocks, block_id, i) ==
    IF i > Len(blocks) THEN 0
    ELSE IF blocks[i].is_allocated /\ blocks[i].block_id = block_id THEN i
    ELSE FindAllocated(blocks, block_id, i + 1)

\* MemoryManager::setStrategy
setStrategy(s) ==
    /\ mm' = [mm EXCEPT !.strategy = s]
    /\ ret' = [op |-> "setStrategy", arg |-> 0, result |-> 0]
    /\ UNCHANGED <<buddy, vm, cache, hier, probes>>

\* allocate taking an id on a failure too
MemoryManager_allocate_FailureTakesId(size) ==
    /\ mm.allocation_attempts < MaxAttempts
    /\ LET block == findBlock(mm, size)
           split == splitBlock(mm.blocks, block, size)
       IN IF size = 0 \/ block = 0
          THEN /\ mm' = [mm EXCEPT !.allocation_attempts = @ + 1,
                                   !.allocation_failures = @ + 1,
                                   !.next_block_id = @ + 1]
               /\ ret' = [op |-> "allocate", arg |-> size, result |-> -1]
          ELSE /\ mm' = [mm EXCEPT !.allocation_attempts = @ + 1,
                                   !.allocation_successes = @ + 1,
                                   !.blocks = [split EXCEPT ![block].is_allocated = TRUE,
                                                            ![block].block_id = mm.next_block_id],
                                   !.next_block_id = @ + 1]
               /\ ret' = [op |-> "allocate", arg |-> size, result |-> mm.next_block_id]
    /\ UNCHANGED <<buddy, vm, cache, hier, probes>>

\* MemoryManager::allocate
MemoryManager_allocate(size) ==
    /\ mm.allocation_attempts < MaxAttempts
    /\ LET block == findBlock(mm, size)
           split == splitBlock(mm.blocks, block, size)
       IN IF size = 0 \/ block = 0
          THEN /\ mm' = [mm EXCEPT !.allocation_attempts = @ + 1,
                                   !.allocation_failures = @ + 1]
               /\ ret' = [op |-> "allocate", arg |-> size, result |-> -1]
          ELSE /\ mm' = [mm EXCEPT !.allocation_attempts = @ + 1,
                                   !.allocation_successes = @ + 1,
                                   !.blocks = [split EXCEPT ![block].is_allocated = TRUE,
                                                            ![block].block_id = mm.next_block_id],
                                   !.next_block_id = @ + 1]
               /\ ret' = [op |-> "allocate", arg |-> size, result |-> mm.next_block_id]
    /\ UNCHANGED <<buddy, vm, cache, hier, probes>>

\* deallocate that marks the block free and leaves the list as it is
MemoryManager_deallocate_NoCoalesce(block_id) ==
    /\ LET current == FindAllocated(mm.blocks, block_id, 1)
       IN IF current # 0
          THEN /\ mm' = [mm EXCEPT !.blocks =
                            [mm.blocks EXCEPT ![current].is_allocated = FALSE,
                                              ![current].block_id = -1]]
               /\ ret' = [op |-> "deallocate", arg |-> block_id, result |-> 1]
          ELSE /\ mm' = mm
               /\ ret' = [op |-> "deallocate", arg |-> block_id, result |-> 0]
    /\ UNCHANGED <<buddy, vm, cache, hier, probes>>

\* MemoryManager::deallocate
MemoryManager_deallocate(block_id) ==
    /\ LET current == FindAllocated(mm.blocks, block_id, 1)
       IN IF current # 0
          THEN /\ mm' = [mm EXCEPT !.blocks =
                            coalesceBlocks([mm.blocks EXCEPT ![current].is_allocated = FALSE,
                                                             ![current].block_id = -1])]
               /\ ret' = [op |-> "deallocate", arg |-> block_id, result |-> 1]
          ELSE /\ mm' = mm
               /\ ret' = [op |-> "deallocate", arg |-> block_id, result |-> 0]
    /\ UNCHANGED <<buddy, vm, cache, hier, probes>>

(***************************************************************************)
(* BUDDY ALLOCATOR  (src/src/buddy/buddy_allocator.cpp)                    *)
(*                                                                         *)
(* free_lists[order] of the code is buddy.free_lists[order + 1] here; a    *)
(* singly linked list is the sequence of its blocks from the head on.      *)
(* allocated_blocks is the function from the live ids to their records.    *)
(***************************************************************************)
RECURSIVE Pow2(_)
Pow2(n) == IF n = 0 THEN 1 ELSE 2 * Pow2(n - 1)

\* a ^ b on size_t operands, bit by bit
RECURSIVE Xor(_, _)
Xor(a, b) ==
    IF a = 0 THEN b
    ELSE IF b = 0 THEN a
    ELSE (((a % 2) + (b % 2)) % 2) + 2 * Xor(a \div 2, b \div 2)

\* n > 0 && (n & (n - 1)) == 0
RECURSIVE isPowerOfTwo(_)
isPowerOfTwo(n) ==
    IF n <= 0 THEN FALSE
    ELSE IF n = 1 THEN TRUE
    ELSE n % 2 = 0 /\ isPowerOfTwo(n \div 2)

\* the loop `while (temp > 1) { temp /= 2; order++; }`
RECURSIVE HalvingSteps(_)
HalvingSteps(temp) == IF temp > 1 THEN 1 + HalvingSteps(temp \div 2) ELSE 0

\* UnifiedMemorySystem::nextPowerOfTwo
RECURSIVE DoubleUpTo(_, _)
DoubleUpTo(power, n) == IF power < n THEN DoubleUpTo(2 * power, n) ELSE power

System_nextPowerOfTwo(n) == IF n <= 1 THEN 1 ELSE DoubleUpTo(1, n)

BuddyBlock(addr, sz) == [address |-> addr, size |-> sz]

AllocationRecord(addr, req, act, ord) ==
    [address |-> addr, requested_size |-> req, actual_size |-> act, order |-> ord]

NoRecords == [id \in {} |-> AllocationRecord(0, 0, 0, 0)]

\* BuddyAllocator::BuddyAllocator
BuddyAllocator(memory_size, min_size) ==
    LET total == IF isPowerOfTwo(memory_size) THEN memory_size ELSE 1024
        minb == IF isPowerOfTwo(min_size) THEN min_size ELSE 16
        maxo == HalvingSteps(total \div minb)
    IN [total_memory |-> total,
        min_block_size |-> minb,
        max_order |-> maxo,
        free_lists |-> [o \in 1 .. maxo + 1 |->
                           IF o = maxo + 1 THEN <<BuddyBlock(0, total)>> ELSE <<>>],
        allocated_blocks |-> NoRecords,
        next_block_id |-> 1,
        total_allocations |-> 0,
        total_deallocations |-> 0,
        successful_allocations |-> 0,
        failed_allocations |-> 0,
        splits |-> 0,
        merges |-> 0,
        total_internal_fragmentation |-> 0]

\* the buddy branch of UnifiedMemorySystem::initializeMemory
initializeMemory(size) ==
    BuddyAllocator(IF isPowerOfTwo(size) THEN size ELSE System_nextPowerOfTwo(size), 16)

getOrder(b, size) ==
    IF size <= b.min_block_size THEN 0 ELSE HalvingSteps(size \div b.min_block_size)

getBlockSize(b, order) == b.min_block_size * Pow2(order)

getBuddyAddress(address, size) == Xor(address, size)

nextPowerOfTwo(b, size) ==
    IF size = 0 THEN b.min_block_size
    ELSE IF size <= b.min_block_size THEN b.min_block_size
    ELSE DoubleUpTo(b.min_block_size, size)

\* splitBlock pushing the upper half first, so that the lower half is the
\* head of the list
RECURSIVE Buddy_splitBlock_LowerHead(_, _)
Buddy_splitBlock_LowerHead(b, order) ==
    IF order >= b.max_order THEN [ok |-> FALSE, b |-> b]
    ELSE
      LET higher == IF b.free_lists[order + 2] = <<>>
                    THEN Buddy_splitBlock_LowerHead(b, order + 1)
                    ELSE [ok |-> TRUE, b |-> b]
          b1 == higher.b
      IN IF ~higher.ok THEN [ok |-> FALSE, b |-> b1]
         ELSE IF b1.free_lists[order + 2] = <<>> THEN [ok |-> FALSE, b |-> b1]
         ELSE
           LET block == Head(b1.free_lists[order + 2])
               new_size == getBlockSize(b1, order)
               buddy1 == BuddyBlock(block.address, new_size)
               buddy2 == BuddyBlock(block.address + new_size, new_size)
           IN [ok |-> TRUE,
               b |-> [b1 EXCEPT !.free_lists[order + 2] = Tail(@),
                                !.free_lists[order + 1] = <<buddy1, buddy2>> \o @,
                                !.splits = @ + 1]]

\* splitBlock counting the split before it knows that there is a block to
\* split
RECURSIVE Buddy_splitBlock_CountsAttempt(_, _)
Buddy_splitBlock_CountsAttempt(b, order) ==
    IF order >= b.max_order THEN [ok |-> FALSE, b |-> [b EXCEPT !.splits = @ + 1]]
    ELSE
      LET higher == IF b.free_lists[order + 2] = <<>>
                    THEN Buddy_splitBlock_CountsAttempt(b, order + 1)
                    ELSE [ok |-> TRUE, b |-> b]
          b1 == higher.b
      IN IF ~higher.ok THEN [ok |-> FALSE, b |-> b1]
         ELSE IF b1.free_lists[order + 2] = <<>> THEN [ok |-> FALSE, b |-> b1]
         ELSE
           LET block == Head(b1.free_lists[order + 2])
               new_size == getBlockSize(b1, order)
               buddy1 == BuddyBlock(block.address, new_size)
               buddy2 == BuddyBlock(block.address + new_size, new_size)
           IN [ok |-> TRUE,
               b |-> [b1 EXCEPT !.free_lists[order + 2] = Tail(@),
                                !.free_lists[order + 1] = <<buddy2, buddy1>> \o @,
                                !.splits = @ + 1]]

\* BuddyAllocator::splitBlock: what it returns (ok) and the allocator after it
RECURSIVE Buddy_splitBlock(_, _)
Buddy_splitBlock(b, order) ==
    IF order >= b.max_order THEN [ok |-> FALSE, b |-> b]
    ELSE
      LET higher == IF b.free_lists[order + 2] = <<>>
                    THEN Buddy_splitBlock(b, order + 1)
                    ELSE [ok |-> TRUE, b |-> b]
          b1 == higher.b
      IN IF ~higher.ok THEN [ok |-> FALSE, b |-> b1]
         ELSE IF b1.free_lists[order + 2] = <<>> THEN [ok |-> FALSE, b |-> b1]
         ELSE
           LET block == Head(b1.free_lists[order + 2])
               new_size == getBlockSize(b1, order)
               buddy1 == BuddyBlock(block.address, new_size)
               buddy2 == BuddyBlock(block.address + new_size, new_size)
           IN [ok |-> TRUE,
               b |-> [b1 EXCEPT !.free_lists[order + 2] = Tail(@),
                                !.free_lists[order + 1] = <<buddy2, buddy1>> \o @,
                                !.splits = @ + 1]]

\* the position in list of the first block at address, 0 if there is none
RECURSIVE PositionOf(_, _, _)
PositionOf(list, address, i) ==
    IF i > Len(list) THEN 0
    ELSE IF list[i].address = address THEN i
    ELSE PositionOf(list, address, i + 1)

\* BuddyAllocator::removeFromFreeList: whether a block was found, and the
\* list without it
removeFromFreeList(list, address) ==
    LET i == PositionOf(list, address, 1)
    IN IF i = 0 THEN [found |-> FALSE, list |-> list]
       ELSE [found |-> TRUE,
             list |-> SubSeq(list, 1, i - 1) \o SubSeq(list, i + 1, Len(list))]

\* BuddyAllocator::mergeBlocks: the allocator after it
RECURSIVE mergeBlocks(_, _, _)
mergeBlocks(b, address, order) ==
    IF order >= b.max_order THEN b
    ELSE
      LET block_size == getBlockSize(b, order)
          buddy_addr == getBuddyAddress(address, block_size)
          without_buddy == removeFromFreeList(b.free_lists[order + 1], buddy_addr)
      IN IF ~without_buddy.found THEN b
         ELSE
           LET without_both == removeFromFreeList(without_buddy.list, address)
               merged_addr == IF address < buddy_addr THEN address ELSE buddy_addr
               merged == BuddyBlock(merged_addr, block_size * 2)
               b1 == [b EXCEPT !.free_lists[order + 1] = without_both.list,
                               !.free_lists[order + 2] = <<merged>> \o @,
                               !.merges = @ + 1]
           IN mergeBlocks(b1, merged_addr, order + 1)

(***************************************************************************)
(* deallocate binds `AllocationRecord& record = it->second`, erases `it`   *)
(* and then calls mergeBlocks(record.address, record.order): the two reads *)
(* go through a reference into the map node that erase has just freed.     *)
(* What they yield is up to the heap of the build: the record as it was    *)
(* (the node's bytes are still there), or any other bytes (a heap that     *)
(* clears or fills freed memory, or has reused the node).  The values an   *)
(* order can take here are those that index free_lists; with any other     *)
(* the call runs off the vector and the process ends there.                *)
(***************************************************************************)
ReadAfterErase(b, record) ==
    {[address |-> record.address, order |-> record.order]}
    \cup [address : {a \in 0 .. b.total_memory - 1 : a % b.min_block_size = 0},
          order : 0 .. b.max_order]

\* BuddyAllocator::allocate
BuddyAllocator_allocate(requested_size) ==
    /\ buddy.total_allocations < MaxAllocations
    /\ LET b0 == [buddy EXCEPT !.total_allocations = @ + 1]
           failed == [b0 EXCEPT !.failed_allocations = @ + 1]
           actual_size == nextPowerOfTwo(b0, requested_size)
           order == getOrder(b0, actual_size)
           split == IF b0.free_lists[order + 1] = <<>>
                    THEN Buddy_splitBlock(b0, order)
                    ELSE [ok |-> TRUE, b |-> b0]
           b1 == split.b
       IN IF requested_size = 0 \/ requested_size > b0.total_memory
          THEN /\ buddy' = failed
               /\ ret' = [op |-> "allocate", arg |-> requested_size, result |-> -1]
          ELSE IF ~split.ok \/ b1.free_lists[order + 1] = <<>>
          THEN /\ buddy' = [b1 EXCEPT !.failed_allocations = @ + 1]
               /\ ret' = [op |-> "allocate", arg |-> requested_size, result |-> -1]
          ELSE LET block == Head(b1.free_lists[order + 1])
                   block_id == b1.next_block_id
               IN /\ buddy' = [b1 EXCEPT
                       !.free_lists[order + 1] = Tail(@),
                       !.next_block_id = @ + 1,
                       !.successful_allocations = @ + 1,
                       !.total_internal_fragmentation = @ + (actual_size - requested_size),
                       !.allocated_blocks =
                           (block_id :> AllocationRecord(block.address, requested_size,
                                                          actual_size, order)) @@ @]
                  /\ ret' = [op |-> "allocate", arg |-> requested_size, result |-> block_id,
                             before |-> buddy]
    /\ UNCHANGED <<mm, vm, cache, hier, probes>>

\* deallocate counting the call before it looks the id up
BuddyAllocator_deallocate_CountsFirst(block_id) ==
    /\ IF block_id \notin DOMAIN buddy.allocated_blocks
       THEN /\ buddy' = [buddy EXCEPT !.total_deallocations = @ + 1]
            /\ ret' = [op |-> "deallocate", arg |-> block_id, result |-> 0]
       ELSE LET record == buddy.allocated_blocks[block_id]
                b1 == [buddy EXCEPT
                         !.free_lists[record.order + 1] =
                             <<BuddyBlock(record.address, record.actual_size)>> \o @,
                         !.total_deallocations = @ + 1,
                         !.total_internal_fragmentation =
                             @ - (record.actual_size - record.requested_size),
                         !.allocated_blocks =
                             [id \in (DOMAIN @) \ {block_id} |-> @[id]]]
            IN /\ \E read \in ReadAfterErase(b1, record) :
                     buddy' = mergeBlocks(b1, read.address, read.order)
               /\ ret' = [op |-> "deallocate", arg |-> block_id, result |-> 1]
    /\ UNCHANGED <<mm, vm, cache, hier, probes>>

\* deallocate appending the freed block at the end of its list
BuddyAllocator_deallocate_AppendsTail(block_id) ==
    /\ IF block_id \notin DOMAIN buddy.allocated_blocks
       THEN /\ buddy' = buddy
            /\ ret' = [op |-> "deallocate", arg |-> block_id, result |-> 0]
       ELSE LET record == buddy.allocated_blocks[block_id]
                b1 == [buddy EXCEPT
                         !.free_lists[record.order + 1] =
                             @ \o <<BuddyBlock(record.address, record.actual_size)>>,
                         !.total_deallocations = @ + 1,
                         !.total_internal_fragmentation =
                             @ - (record.actual_size - record.requested_size),
                         !.allocated_blocks =
                             [id \in (DOMAIN @) \ {block_id} |-> @[id]]]
            IN /\ \E read \in ReadAfterErase(b1, record) :
                     buddy' = mergeBlocks(b1, read.address, read.order)
               /\ ret' = [op |-> "deallocate", arg |-> block_id, result |-> 1]
    /\ UNCHANGED <<mm, vm, cache, hier, probes>>

\* BuddyAllocator::deallocate
BuddyAllocator_deallocate(block_id) ==
    /\ IF block_id \notin DOMAIN buddy.allocated_blocks
       THEN /\ buddy' = buddy
            /\ ret' = [op |-> "deallocate", arg |-> block_id, result |-> 0]
       ELSE LET record == buddy.allocated_blocks[block_id]
                b1 == [buddy EXCEPT
                         !.free_lists[record.order + 1] =
                             <<BuddyBlock(record.address, record.actual_size)>> \o @,
                         !.total_deallocations = @ + 1,
                         !.total_internal_fragmentation =
                             @ - (record.actual_size - record.requested_size),
                         !.allocated_blocks =
                             [id \in (DOMAIN @) \ {block_id} |-> @[id]]]
            IN /\ \E read \in ReadAfterErase(b1, record) :
                     buddy' = mergeBlocks(b1, read.address, read.order)
               /\ ret' = [op |-> "deallocate", arg |-> block_id, result |-> 1]
    /\ UNCHANGED <<mm, vm, cache, hier, probes>>

(***************************************************************************)
(* VIRTUAL MEMORY  (src/src/virtual_memory/virtual_memory_simulator.cpp)   *)
(*                                                                         *)
(* page_table[p] of the code is vm.page_table[p + 1] here, and so for      *)
(* frame_to_page and frame_used.  translateAddress indexes page_table with *)
(* va / page_size unchecked, and when vm_size is not a multiple of         *)
(* page_size the last addresses of the virtual memory give the index       *)
(* num_virtual_pages, one past the vector.  That access is undefined; it   *)
(* reads and writes whatever follows the vector's storage.  The entries of *)
(* vm.page_table after the first num_virtual_pages stand for that memory:  *)
(* what they hold to start with is not determined by the program.          *)
(***************************************************************************)
FIFO == "FIFO"
LRU == "LRU"

\* INT32_MAX, the start value of the minimum searches
INT32_MAX == 2147483647

PageTableEntry ==
    [valid |-> FALSE, frame_number |-> -1, dirty |-> FALSE,
     last_access_time |-> 0, load_time |-> 0, access_count |-> 0]

\* the page-table indexes translateAddress computes for the addresses it
\* accepts (va < vm_size) that lie outside the vector
IndexesBeyond(vm_size, pg_size) ==
    {p \in 0 .. vm_size : p >= vm_size \div pg_size /\ p * pg_size < vm_size}

\* what the memory after the vector may hold, read as a PageTableEntry
\* (the two times and the count are taken 0)
StorageContents ==
    {[valid |-> v, frame_number |-> f, dirty |-> d,
      last_access_time |-> 0, load_time |-> 0, access_count |-> 0] :
        v \in BOOLEAN, f \in {-1, 0}, d \in BOOLEAN}

\* VirtualMemorySimulator::VirtualMemorySimulator; beyond is what follows
\* the page table's storage
VirtualMemorySimulator(vm_size, pm_size, pg_size, policy_str, beyond) ==
    LET pages == vm_size \div pg_size
        frames == pm_size \div pg_size
        clamped == frames > pages
    IN [virtual_memory_size |-> vm_size,
        physical_memory_size |-> IF clamped THEN pages * pg_size ELSE pm_size,
        page_size |-> pg_size,
        num_virtual_pages |-> pages,
        num_physical_frames |-> IF clamped THEN pages ELSE frames,
        policy |-> IF policy_str = "lru" THEN LRU ELSE FIFO,
        page_table |-> [p \in 1 .. pages |-> PageTableEntry] \o beyond,
        frame_to_page |-> [f \in 1 .. (IF clamped THEN pages ELSE frames) |-> -1],
        frame_used |-> [f \in 1 .. (IF clamped THEN pages ELSE frames) |-> FALSE],
        page_faults |-> 0,
        page_hits |-> 0,
        total_accesses |-> 0,
        disk_reads |-> 0,
        disk_writes |-> 0,
        current_time |-> 0,
        verbose |-> FALSE]

\* VirtualMemorySimulator::findFreeFrame, from frame i on
RECURSIVE FreeFrameFrom(_, _)
FreeFrameFrom(v, i) ==
    IF i >= v.num_physical_frames THEN -1
    ELSE IF ~v.frame_used[i + 1] THEN i
    ELSE FreeFrameFrom(v, i + 1)

findFreeFrame(v) == FreeFrameFrom(v, 0)

\* the FIFO loop of selectVictimPage from frame i on, with the locals
\* victim and min_load_time
RECURSIVE FifoVictimFrom(_, _, _, _)
FifoVictimFrom(v, i, victim, min_load_time) ==
    IF i >= v.num_physical_frames THEN victim
    ELSE LET page_idx == v.frame_to_page[i + 1]
         IN IF page_idx # -1 /\ v.page_table[page_idx + 1].valid
                /\ v.page_table[page_idx + 1].load_time < min_load_time
            THEN FifoVictimFrom(v, i + 1, page_idx, v.page_table[page_idx + 1].load_time)
            ELSE FifoVictimFrom(v, i + 1, victim, min_load_time)

\* the LRU loop of selectVictimPage from frame i on, with the locals
\* victim and min_access_time
RECURSIVE LruVictimFrom(_, _, _, _)
LruVictimFrom(v, i, victim, min_access_time) ==
    IF i >= v.num_physical_frames THEN victim
    ELSE LET page_idx == v.frame_to_page[i + 1]
         IN IF page_idx # -1 /\ v.page_table[page_idx + 1].valid
                /\ v.page_table[page_idx + 1].last_access_time < min_access_time
            THEN LruVictimFrom(v, i + 1, page_idx,
                               v.page_table[page_idx + 1].last_access_time)
            ELSE LruVictimFrom(v, i + 1, victim, min_access_time)

\* VirtualMemorySimulator::selectVictimPage
selectVictimPage(v) ==
    IF v.policy = FIFO THEN FifoVictimFrom(v, 0, -1, INT32_MAX)
    ELSE LruVictimFrom(v, 0, -1, INT32_MAX)

\* VirtualMemorySimulator::evictPage: the simulator after it; the frame it
\* returns is the frame_number the entry had
evictPage(v, page_number) ==
    LET pte == v.page_table[page_number + 1]
        in_verbose == IF v.verbose /\ pte.dirty THEN 1 ELSE 0
        always == IF pte.dirty THEN 1 ELSE 0
    IN IF ~pte.valid THEN v
       ELSE [v EXCEPT !.disk_writes = @ + in_verbose + always,
                      !.page_table[page_number + 1].valid = FALSE,
                      !.page_table[page_number + 1].frame_number = -1,
                      !.page_table[page_number + 1].dirty = FALSE,
                      !.frame_to_page[pte.frame_number + 1] = -1,
                      !.frame_used[pte.frame_number + 1] = FALSE]

\* VirtualMemorySimulator::loadPage
loadPage(v, page_number, frame_number) ==
    [v EXCEPT !.disk_reads = @ + 1,
              !.page_table[page_number + 1] =
                  [valid |-> TRUE, frame_number |-> frame_number, dirty |-> FALSE,
                   load_time |-> v.current_time, last_access_time |-> v.current_time,
                   access_count |-> @.access_count + 1],
              !.frame_to_page[frame_number + 1] = page_number,
              !.frame_used[frame_number + 1] = TRUE]

\* VirtualMemorySimulator::handlePageFault
handlePageFault(v, page_number) ==
    LET free_frame == findFreeFrame(v)
        victim_page == selectVictimPage(v)
    IN IF free_frame # -1 THEN loadPage(v, page_number, free_frame)
       ELSE IF victim_page = -1 THEN v
       ELSE loadPage(evictPage(v, victim_page), page_number,
                     v.page_table[victim_page + 1].frame_number)

\* (pte.frame_number * page_size) + offset in size_t; with frame_number = -1
\* (no frame could be had) the product wraps, and the value, 2^64 - page_size
\* + offset, is written here as the negative number it is congruent to
PhysicalAddress(v, page_number, offset) ==
    (v.page_table[page_number + 1].frame_number * v.page_size) + offset

\* the entries beyond the table are memory the simulator does not own: it
\* belongs to the allocator or to the object that follows, and what a call
\* finds there need not be what an earlier call left.  Reread(v) is v with
\* the dirty flag of those entries as any call may find it.
Reread(v) ==
    {[v EXCEPT !.page_table =
          [p \in DOMAIN @ |->
              IF p <= v.num_virtual_pages THEN @[p]
              ELSE [@[p] EXCEPT !.dirty = found[p - v.num_virtual_pages]]]] :
        found \in [1 .. Len(v.page_table) - v.num_virtual_pages -> BOOLEAN]}

\* the body of translateAddress on the simulator as the call finds it: the
\* simulator after the call and the address returned (-1 stands for
\* (size_t)-1)
Translation(as_found, virtual_address) ==
    LET v0 == [as_found EXCEPT !.total_accesses = @ + 1, !.current_time = @ + 1]
        page_number == virtual_address \div v0.page_size
        offset == virtual_address % v0.page_size
        v1 == handlePageFault([v0 EXCEPT !.page_faults = @ + 1], page_number)
    IN IF virtual_address >= v0.virtual_memory_size
       THEN [v |-> v0, result |-> -1]
       ELSE IF v0.page_table[page_number + 1].valid
       THEN [v |-> [v0 EXCEPT !.page_hits = @ + 1,
                              !.page_table[page_number + 1].last_access_time =
                                  v0.current_time,
                              !.page_table[page_number + 1].access_count = @ + 1],
             result |-> PhysicalAddress(v0, page_number, offset)]
       ELSE [v |-> v1, result |-> PhysicalAddress(v1, page_number, offset)]

\* the outcomes of translateAddress(virtual_address) on v
Translations(v, virtual_address) ==
    {Translation(as_found, virtual_address) :
        as_found \in (IF virtual_address >= v.virtual_memory_size
                      THEN {v} ELSE Reread(v))}

\* VirtualMemorySimulator::translateAddress
translateAddress(virtual_address) ==
    /\ vm.total_accesses < MaxAccesses
    /\ \A p \in DOMAIN vm.page_table : vm.page_table[p].access_count < MaxAccesses
    /\ \E t \in Translations(vm, virtual_address) :
          /\ vm' = t.v
          /\ ret' = [op |-> "translateAddress", arg |-> virtual_address,
                     result |-> t.result]
    /\ UNCHANGED <<mm, buddy, cache, hier, probes>>

\* VirtualMemorySimulator::setReplacementPolicy
setReplacementPolicy(policy_str) ==
    /\ vm' = [vm EXCEPT !.policy = IF policy_str = "lru" THEN LRU
                                   ELSE IF policy_str = "fifo" THEN FIFO
                                   ELSE @]
    /\ ret' = [op |-> "setReplacementPolicy", arg |-> 0, result |-> 0]
    /\ UNCHANGED <<mm, buddy, cache, hier, probes>>

\* VirtualMemorySimulator::setVerbose
setVerbose(v) ==
    /\ vm' = [vm EXCEPT !.verbose = v]
    /\ ret' = [op |-> "setVerbose", arg |-> 0, result |-> 0]
    /\ UNCHANGED <<mm, buddy, cache, hier, probes>>

\* VirtualMemorySimulator::clearStats; the only call of it is reset's
clearStats(v) ==
    [v EXCEPT !.page_faults = 0, !.page_hits = 0, !.total_accesses = 0,
              !.disk_reads = 0, !.disk_writes = 0, !.current_time = 0]

\* VirtualMemorySimulator::reset
reset ==
    /\ vm' = clearStats([vm EXCEPT
                 !.page_table = [p \in DOMAIN @ |->
                                    IF p <= vm.num_virtual_pages THEN PageTableEntry
                                    ELSE @[p]],
                 !.frame_to_page = [f \in DOMAIN @ |-> -1],
                 !.frame_used = [f \in DOMAIN @ |-> FALSE]])
    /\ ret' = [op |-> "reset", arg |-> 0, result |-> 0]
    /\ UNCHANGED <<mm, buddy, cache, hier, probes>>

(***************************************************************************)
(* CACHE LEVEL  (src/src/cache/cache_simulator.cpp, class Cache)           *)
(*                                                                         *)
(* cache[set][way] of the code is c.cache[set + 1][way + 1] here.  The     *)
(* member functions are operators on a level c, so that the hierarchy can  *)
(* apply them to each of its levels; those that return a value yield a     *)
(* record of the value and the level after the call.                       *)
(***************************************************************************)
WRITE_THROUGH == "WRITE_THROUGH"
WRITE_BACK == "WRITE_BACK"

DIRECT_MAPPED == "DIRECT_MAPPED"
TWO_WAY == "TWO_WAY"
FOUR_WAY == "FOUR_WAY"
FULLY_ASSOCIATIVE == "FULLY_ASSOCIATIVE"

CacheLine ==
    [valid |-> FALSE, tag |-> 0, dirty |-> FALSE,
     insertion_order |-> 0, last_access_time |-> 0]

\* Cache::Cache
Cache(total_lines, blk_size, assoc, repl_pol, wr_pol) ==
    LET w == CASE assoc = DIRECT_MAPPED -> 1
               [] assoc = TWO_WAY -> 2
               [] assoc = FOUR_WAY -> 4
               [] assoc = FULLY_ASSOCIATIVE -> total_lines
        sets == CASE assoc = DIRECT_MAPPED -> total_lines
                  [] assoc = TWO_WAY -> total_lines \div 2
                  [] assoc = FOUR_WAY -> total_lines \div 4
                  [] assoc = FULLY_ASSOCIATIVE -> 1
    IN [capacity |-> total_lines,
        block_size |-> blk_size,
        associativity |-> assoc,
        replacement_policy |-> repl_pol,
        write_policy |-> wr_pol,
        num_sets |-> sets,
        ways |-> w,
        cache |-> [set \in 1 .. sets |-> [way \in 1 .. w |-> CacheLine]],
        next_insertion_order |-> 0,
        access_counter |-> 0,
        hits |-> 0,
        misses |-> 0,
        writes |-> 0,
        write_hits |-> 0,
        write_misses |-> 0,
        writebacks |-> 0]

getSetIndex(c, address) == (address \div c.block_size) % c.num_sets

getTag(c, address) == (address \div c.block_size) \div c.num_sets

\* the loop `for (way ...) if (valid && tag == tag)`: the way that hits,
\* from way on, or -1
RECURSIVE HitWayFrom(_, _, _, _)
HitWayFrom(c, set_index, tag, way) ==
    IF way >= c.ways THEN -1
    ELSE IF c.cache[set_index + 1][way + 1].valid
            /\ c.cache[set_index + 1][way + 1].tag = tag
         THEN way
    ELSE HitWayFrom(c, set_index, tag, way + 1)

\* the first loop of findVictimInSet: the first invalid way, or -1
RECURSIVE InvalidWayFrom(_, _, _)
InvalidWayFrom(c, set_index, way) ==
    IF way >= c.ways THEN -1
    ELSE IF ~c.cache[set_index + 1][way + 1].valid THEN way
    ELSE InvalidWayFrom(c, set_index, way + 1)

\* the loop of findFIFOVictimInSet from way on
RECURSIVE FifoWayFrom(_, _, _, _, _)
FifoWayFrom(c, set_index, way, oldest_way, oldest_order) ==
    IF way >= c.ways THEN oldest_way
    ELSE IF c.cache[set_index + 1][way + 1].insertion_order < oldest_order
         THEN FifoWayFrom(c, set_index, way + 1, way,
                          c.cache[set_index + 1][way + 1].insertion_order)
    ELSE FifoWayFrom(c, set_index, way + 1, oldest_way, oldest_order)

findFIFOVictimInSet(c, set_index) ==
    FifoWayFrom(c, set_index, 1, 0, c.cache[set_index + 1][1].insertion_order)

\* the loop of findLRUVictimInSet from way on
RECURSIVE LruWayFrom(_, _, _, _, _)
LruWayFrom(c, set_index, way, lru_way, lru_time) ==
    IF way >= c.ways THEN lru_way
    ELSE IF c.cache[set_index + 1][way + 1].last_access_time < lru_time
         THEN LruWayFrom(c, set_index, way + 1, way,
                         c.cache[set_index + 1][way + 1].last_access_time)
    ELSE LruWayFrom(c, set_index, way + 1, lru_way, lru_time)

findLRUVictimInSet(c, set_index) ==
    LruWayFrom(c, set_index, 1, 0, c.cache[set_index + 1][1].last_access_time)

\* findVictimInSet that goes by the policy without looking for an invalid way
findVictimInSet_PolicyOnly(c, set_index) ==
    IF c.replacement_policy = FIFO THEN findFIFOVictimInSet(c, set_index)
    ELSE findLRUVictimInSet(c, set_index)

\* Cache::findVictimInSet
findVictimInSet(c, set_index) ==
    IF InvalidWayFrom(c, set_index, 0) # -1 THEN InvalidWayFrom(c, set_index, 0)
    ELSE IF c.replacement_policy = FIFO THEN findFIFOVictimInSet(c, set_index)
    ELSE findLRUVictimInSet(c, set_index)

\* Cache::read that counts no miss
Cache_read_UncountedMiss(c, address) ==
    LET c0 == [c EXCEPT !.access_counter = @ + 1]
        set_index == getSetIndex(c0, address)
        way == HitWayFrom(c0, set_index, getTag(c0, address), 0)
    IN IF way # -1
       THEN [hit |-> TRUE,
             c |-> [c0 EXCEPT !.hits = @ + 1,
                              !.cache[set_index + 1][way + 1].last_access_time =
                                  IF c0.replacement_policy = LRU
                                  THEN c0.access_counter ELSE @]]
       ELSE [hit |-> FALSE, c |-> c0]

\* read filling way 0 of the set on a miss
Cache_read_FillsOnMiss(c, address) ==
    LET c0 == [c EXCEPT !.access_counter = @ + 1]
        set_index == getSetIndex(c0, address)
        way == HitWayFrom(c0, set_index, getTag(c0, address), 0)
    IN IF way # -1
       THEN [hit |-> TRUE,
             c |-> [c0 EXCEPT !.hits = @ + 1,
                              !.cache[set_index + 1][way + 1].last_access_time =
                                  IF c0.replacement_policy = LRU
                                  THEN c0.access_counter ELSE @]]
       ELSE [hit |-> FALSE,
             c |-> [c0 EXCEPT !.misses = @ + 1,
                              !.cache[set_index + 1][1].valid = TRUE,
                              !.cache[set_index + 1][1].tag = getTag(c0, address)]]

\* Cache::read
Cache_read(c, address) ==
    LET c0 == [c EXCEPT !.access_counter = @ + 1]
        set_index == getSetIndex(c0, address)
        way == HitWayFrom(c0, set_index, getTag(c0, address), 0)
    IN IF way # -1
       THEN [hit |-> TRUE,
             c |-> [c0 EXCEPT !.hits = @ + 1,
                              !.cache[set_index + 1][way + 1].last_access_time =
                                  IF c0.replacement_policy = LRU
                                  THEN c0.access_counter ELSE @]]
       ELSE [hit |-> FALSE, c |-> [c0 EXCEPT !.misses = @ + 1]]

\* Cache::write
Cache_write(c, address) ==
    LET c0 == [c EXCEPT !.access_counter = @ + 1, !.writes = @ + 1]
        set_index == getSetIndex(c0, address)
        tag == getTag(c0, address)
        way == HitWayFrom(c0, set_index, tag, 0)
        victim_way == findVictimInSet(c0, set_index)
        victim == c0.cache[set_index + 1][victim_way + 1]
    IN IF way # -1
       THEN [hit |-> TRUE,
             c |-> [c0 EXCEPT !.write_hits = @ + 1,
                              !.hits = @ + 1,
                              !.cache[set_index + 1][way + 1].last_access_time =
                                  IF c0.replacement_policy = LRU
                                  THEN c0.access_counter ELSE @,
                              !.cache[set_index + 1][way + 1].dirty =
                                  IF c0.write_policy = WRITE_BACK THEN TRUE ELSE @]]
       ELSE [hit |-> FALSE,
             c |-> [c0 EXCEPT !.write_misses = @ + 1,
                              !.misses = @ + 1,
                              !.writebacks =
                                  IF victim.valid /\ victim.dirty
                                     /\ c0.write_policy = WRITE_BACK
                                  THEN @ + 1 ELSE @,
                              !.cache[set_index + 1][victim_way + 1] =
                                  [valid |-> TRUE, tag |-> tag,
                                   dirty |-> (c0.write_policy = WRITE_BACK),
                                   insertion_order |-> c0.next_insertion_order,
                                   last_access_time |-> c0.access_counter],
                              !.next_insertion_order = @ + 1]]

\* Cache::insert that installs the dirty flag it is given
Cache_insert_FlagAsGiven(c, address, is_dirty) ==
    LET set_index == getSetIndex(c, address)
        tag == getTag(c, address)
        way == HitWayFrom(c, set_index, tag, 0)
        victim_way == findVictimInSet(c, set_index)
        victim == c.cache[set_index + 1][victim_way + 1]
    IN IF way # -1
       THEN [c EXCEPT !.access_counter =
                          IF c.replacement_policy = LRU THEN @ + 1 ELSE @,
                      !.cache[set_index + 1][way + 1].last_access_time =
                          IF c.replacement_policy = LRU
                          THEN c.access_counter + 1 ELSE @,
                      !.cache[set_index + 1][way + 1].dirty =
                          IF is_dirty THEN TRUE ELSE @]
       ELSE [c EXCEPT !.writebacks =
                          IF victim.valid /\ victim.dirty
                             /\ c.write_policy = WRITE_BACK
                          THEN @ + 1 ELSE @,
                      !.cache[set_index + 1][victim_way + 1] =
                          [valid |-> TRUE, tag |-> tag, dirty |-> is_dirty,
                           insertion_order |-> c.next_insertion_order,
                           last_access_time |-> c.access_counter + 1],
                      !.next_insertion_order = @ + 1,
                      !.access_counter = @ + 1]

\* insert that installs the block without looking for it first
Cache_insert_NoLookup(c, address, is_dirty) ==
    LET set_index == getSetIndex(c, address)
        tag == getTag(c, address)
        actual_dirty == IF c.write_policy = WRITE_BACK THEN is_dirty ELSE FALSE
        victim_way == findVictimInSet(c, set_index)
        victim == c.cache[set_index + 1][victim_way + 1]
    IN [c EXCEPT !.writebacks =
                     IF victim.valid /\ victim.dirty
                        /\ c.write_policy = WRITE_BACK
                     THEN @ + 1 ELSE @,
                 !.cache[set_index + 1][victim_way + 1] =
                     [valid |-> TRUE, tag |-> tag, dirty |-> actual_dirty,
                      insertion_order |-> c.next_insertion_order,
                      last_access_time |-> c.access_counter + 1],
                 !.next_insertion_order = @ + 1,
                 !.access_counter = @ + 1]

\* Cache::insert
Cache_insert(c, address, is_dirty) ==
    LET set_index == getSetIndex(c, address)
        tag == getTag(c, address)
        actual_dirty == IF c.write_policy = WRITE_BACK THEN is_dirty ELSE FALSE
        way == HitWayFrom(c, set_index, tag, 0)
        victim_way == findVictimInSet(c, set_index)
        victim == c.cache[set_index + 1][victim_way + 1]
    IN IF way # -1
       THEN [c EXCEPT !.access_counter =
                          IF c.replacement_policy = LRU THEN @ + 1 ELSE @,
                      !.cache[set_index + 1][way + 1].last_access_time =
                          IF c.replacement_policy = LRU
                          THEN c.access_counter + 1 ELSE @,
                      !.cache[set_index + 1][way + 1].dirty =
                          IF actual_dirty THEN TRUE ELSE @]
       ELSE [c EXCEPT !.writebacks =
                          IF victim.valid /\ victim.dirty
                             /\ c.write_policy = WRITE_BACK
                          THEN @ + 1 ELSE @,
                      !.cache[set_index + 1][victim_way + 1] =
                          [valid |-> TRUE, tag |-> tag, dirty |-> actual_dirty,
                           insertion_order |-> c.next_insertion_order,
                           last_access_time |-> c.access_counter + 1],
                      !.next_insertion_order = @ + 1,
                      !.access_counter = @ + 1]

\* evict that counts no writeback
Cache_evict_NoWriteback(c, address) ==
    LET set_index == getSetIndex(c, address)
        way == HitWayFrom(c, set_index, getTag(c, address), 0)
        was_dirty == c.cache[set_index + 1][way + 1].dirty
    IN IF way # -1
       THEN [found |-> TRUE, was_dirty |-> was_dirty,
             c |-> [c EXCEPT !.cache[set_index + 1][way + 1].valid = FALSE,
                             !.cache[set_index + 1][way + 1].dirty = FALSE]]
       ELSE [found |-> FALSE, was_dirty |-> FALSE, c |-> c]

\* Cache::evict: what it returns, what it stores in was_dirty, and the level
\* after it
Cache_evict(c, address) ==
    LET set_index == getSetIndex(c, address)
        way == HitWayFrom(c, set_index, getTag(c, address), 0)
        was_dirty == c.cache[set_index + 1][way + 1].dirty
    IN IF way # -1
       THEN [found |-> TRUE, was_dirty |-> was_dirty,
             c |-> [c EXCEPT !.cache[set_index + 1][way + 1].valid = FALSE,
                             !.cache[set_index + 1][way + 1].dirty = FALSE,
                             !.writebacks =
                                 IF was_dirty /\ c.write_policy = WRITE_BACK
                                 THEN @ + 1 ELSE @]]
       ELSE [found |-> FALSE, was_dirty |-> FALSE, c |-> c]

\* clear resetting the counters and the dirty bits but leaving the lines
\* valid
Cache_clear_KeepsLines(c) ==
    [c EXCEPT !.cache = [set \in DOMAIN @ |-> [way \in DOMAIN @[set] |->
                            [@[set][way] EXCEPT !.dirty = FALSE]]],
              !.hits = 0, !.misses = 0, !.writes = 0, !.write_hits = 0,
              !.write_misses = 0, !.writebacks = 0,
              !.next_insertion_order = 0, !.access_counter = 0]

\* Cache::clear
Cache_clear(c) ==
    [c EXCEPT !.cache = [set \in DOMAIN @ |-> [way \in DOMAIN @[set] |->
                            [@[set][way] EXCEPT !.valid = FALSE, !.dirty = FALSE]]],
              !.hits = 0, !.misses = 0, !.writes = 0, !.write_hits = 0,
              !.write_misses = 0, !.writebacks = 0,
              !.next_insertion_order = 0, !.access_counter = 0]

Bit(b) == IF b THEN 1 ELSE 0

\* the calls of the member functions on the level `cache`
readWithin(limit, address) ==
    /\ cache.access_counter < limit
    /\ LET r == Cache_read(cache, address)
       IN /\ cache' = r.c
          /\ ret' = [op |-> "read", arg |-> address, result |-> Bit(r.hit)]
    /\ UNCHANGED <<mm, buddy, vm, hier, probes>>

read(address) == readWithin(MaxLevelAccesses, address)

writeWithin(limit, address) ==
    /\ cache.access_counter < limit
    /\ LET r == Cache_write(cache, address)
       IN /\ cache' = r.c
          /\ ret' = [op |-> "write", arg |-> address, result |-> Bit(r.hit)]
    /\ UNCHANGED <<mm, buddy, vm, hier, probes>>

write(address) == writeWithin(MaxLevelAccesses, address)

insertWithin(limit, address, is_dirty) ==
    /\ cache.access_counter < limit
    /\ cache' = Cache_insert(cache, address, is_dirty)
    /\ ret' = [op |-> "insert", arg |-> address, is_dirty |-> is_dirty, result |-> 0]
    /\ UNCHANGED <<mm, buddy, vm, hier, probes>>

insert(address, is_dirty) == insertWithin(MaxLevelAccesses, address, is_dirty)

evict(address) ==
    /\ LET r == Cache_evict(cache, address)
       IN /\ cache' = r.c
          /\ ret' = [op |-> "evict", arg |-> address, was_dirty |-> r.was_dirty,
                     result |-> Bit(r.found)]
    /\ UNCHANGED <<mm, buddy, vm, hier, probes>>

clear ==
    /\ cache' = Cache_clear(cache)
    /\ ret' = [op |-> "clear", arg |-> 0, result |-> 0]
    /\ UNCHANGED <<mm, buddy, vm, hier, probes>>

(***************************************************************************)
(* CACHE HIERARCHY  (src/src/cache/cache_simulator.cpp, CacheHierarchy)    *)
(*                                                                         *)
(* probes counts, for each level, the Cache::read and Cache::write calls   *)
(* the hierarchy has made on it since construction or the last clearAll.   *)
(***************************************************************************)
\* a level pointer that holds no level
nullptr == "nullptr"

\* the arguments the constructor takes for one level
LevelArgs(lines, block, assoc, repl, wr) ==
    [lines |-> lines, block |-> block, assoc |-> assoc, repl |-> repl, wr |-> wr]

\* a constructor that builds L3 only under an L2
CacheHierarchy_L3UnderL2(a1, a2, a3) ==
    [l1 |-> Cache(a1.lines, a1.block, a1.assoc, a1.repl, a1.wr),
     l2 |-> IF a2.lines > 0 THEN Cache(a2.lines, a2.block, a2.assoc, a2.repl, a2.wr)
            ELSE nullptr,
     l3 |-> IF a2.lines > 0 /\ a3.lines > 0
            THEN Cache(a3.lines, a3.block, a3.assoc, a3.repl, a3.wr)
            ELSE nullptr,
     has_l2 |-> a2.lines > 0,
     has_l3 |-> a2.lines > 0 /\ a3.lines > 0,
     total_accesses |-> 0,
     total_reads |-> 0,
     total_writes |-> 0,
     l1_hits |-> 0,
     l2_hits |-> 0,
     l3_hits |-> 0,
     memory_accesses |-> 0,
     memory_writes |-> 0,
     l1_penalty |-> 1,
     l2_penalty |-> 10,
     l3_penalty |-> 50,
     memory_penalty |-> 100,
     total_penalty_cycles |-> 0]

\* CacheHierarchy::CacheHierarchy
CacheHierarchy(a1, a2, a3) ==
    [l1 |-> Cache(a1.lines, a1.block, a1.assoc, a1.repl, a1.wr),
     l2 |-> IF a2.lines > 0 THEN Cache(a2.lines, a2.block, a2.assoc, a2.repl, a2.wr)
            ELSE nullptr,
     l3 |-> IF a3.lines > 0 THEN Cache(a3.lines, a3.block, a3.assoc, a3.repl, a3.wr)
            ELSE nullptr,
     has_l2 |-> a2.lines > 0,
     has_l3 |-> a3.lines > 0,
     total_accesses |-> 0,
     total_reads |-> 0,
     total_writes |-> 0,
     l1_hits |-> 0,
     l2_hits |-> 0,
     l3_hits |-> 0,
     memory_accesses |-> 0,
     memory_writes |-> 0,
     l1_penalty |-> 1,
     l2_penalty |-> 10,
     l3_penalty |-> 50,
     memory_penalty |-> 100,
     total_penalty_cycles |-> 0]

NoProbes == [l1 |-> 0, l2 |-> 0, l3 |-> 0]

\* read charging a hit in L3 for a miss in L2 whether or not there is an L2
Hierarchy_read_FlatL3Hit(h, address) ==
    LET r1 == Cache_read(h.l1, address)
        h1 == [h EXCEPT !.total_accesses = @ + 1, !.total_reads = @ + 1, !.l1 = r1.c]
        r2 == Cache_read(h1.l2, address)
        h2 == IF h1.has_l2 THEN [h1 EXCEPT !.l2 = r2.c] ELSE h1
        penalty2 == h.l1_penalty + (IF h.has_l2 THEN h.l2_penalty ELSE 0)
        r3 == Cache_read(h2.l3, address)
        h3 == IF h2.has_l3 THEN [h2 EXCEPT !.l3 = r3.c] ELSE h2
        penalty3 == penalty2 + (IF h.has_l3 THEN h.l3_penalty ELSE 0)
    IN IF r1.hit
       THEN [accessed |-> FALSE, probed |-> {1},
             h |-> [h1 EXCEPT !.l1_hits = @ + 1,
                              !.total_penalty_cycles = @ + 1]]
       ELSE IF h1.has_l2 /\ r2.hit
       THEN [accessed |-> FALSE, probed |-> {1, 2},
             h |-> [h2 EXCEPT !.l2_hits = @ + 1,
                              !.l1 = Cache_insert(@, address, FALSE),
                              !.total_penalty_cycles = @ + h.l1_penalty + 10]]
       ELSE IF h2.has_l3 /\ r3.hit
       THEN [accessed |-> FALSE,
             probed |-> {1, 3} \cup (IF h.has_l2 THEN {2} ELSE {}),
             h |-> [h3 EXCEPT !.l3_hits = @ + 1,
                              !.l2 = IF h.has_l2 THEN Cache_insert(@, address, FALSE)
                                     ELSE @,
                              !.l1 = Cache_insert(@, address, FALSE),
                              !.total_penalty_cycles =
                                  @ + h.l1_penalty + h.l2_penalty + 50]]
       ELSE [accessed |-> TRUE,
             probed |-> {1} \cup (IF h.has_l2 THEN {2} ELSE {})
                            \cup (IF h.has_l3 THEN {3} ELSE {}),
             h |-> [h3 EXCEPT !.memory_accesses = @ + 1,
                              !.l3 = IF h.has_l3 THEN Cache_insert(@, address, FALSE)
                                     ELSE @,
                              !.l2 = IF h.has_l2 THEN Cache_insert(@, address, FALSE)
                                     ELSE @,
                              !.l1 = Cache_insert(@, address, FALSE),
                              !.total_penalty_cycles =
                                  @ + penalty3 + h.memory_penalty]]

\* read charging nothing for the miss in L3 on the way to memory
Hierarchy_read_NoL3Penalty(h, address) ==
    LET r1 == Cache_read(h.l1, address)
        h1 == [h EXCEPT !.total_accesses = @ + 1, !.total_reads = @ + 1, !.l1 = r1.c]
        r2 == Cache_read(h1.l2, address)
        h2 == IF h1.has_l2 THEN [h1 EXCEPT !.l2 = r2.c] ELSE h1
        penalty2 == h.l1_penalty + (IF h.has_l2 THEN h.l2_penalty ELSE 0)
        r3 == Cache_read(h2.l3, address)
        h3 == IF h2.has_l3 THEN [h2 EXCEPT !.l3 = r3.c] ELSE h2
        penalty3 == penalty2
    IN IF r1.hit
       THEN [accessed |-> FALSE, probed |-> {1},
             h |-> [h1 EXCEPT !.l1_hits = @ + 1,
                              !.total_penalty_cycles = @ + 1]]
       ELSE IF h1.has_l2 /\ r2.hit
       THEN [accessed |-> FALSE, probed |-> {1, 2},
             h |-> [h2 EXCEPT !.l2_hits = @ + 1,
                              !.l1 = Cache_insert(@, address, FALSE),
                              !.total_penalty_cycles = @ + h.l1_penalty + 10]]
       ELSE IF h2.has_l3 /\ r3.hit
       THEN [accessed |-> FALSE,
             probed |-> {1, 3} \cup (IF h.has_l2 THEN {2} ELSE {}),
             h |-> [h3 EXCEPT !.l3_hits = @ + 1,
                              !.l2 = IF h.has_l2 THEN Cache_insert(@, address, FALSE)
                                     ELSE @,
                              !.l1 = Cache_insert(@, address, FALSE),
                              !.total_penalty_cycles = @ + penalty2 + 50]]
       ELSE [accessed |-> TRUE,
             probed |-> {1} \cup (IF h.has_l2 THEN {2} ELSE {})
                            \cup (IF h.has_l3 THEN {3} ELSE {}),
             h |-> [h3 EXCEPT !.memory_accesses = @ + 1,
                              !.l3 = IF h.has_l3 THEN Cache_insert(@, address, FALSE)
                                     ELSE @,
                              !.l2 = IF h.has_l2 THEN Cache_insert(@, address, FALSE)
                                     ELSE @,
                              !.l1 = Cache_insert(@, address, FALSE),
                              !.total_penalty_cycles =
                                  @ + penalty3 + h.memory_penalty]]

\* read refilling only L1 on an L3 hit
Hierarchy_read_L3HitSkipsL2(h, address) ==
    LET r1 == Cache_read(h.l1, address)
        h1 == [h EXCEPT !.total_accesses = @ + 1, !.total_reads = @ + 1, !.l1 = r1.c]
        r2 == Cache_read(h1.l2, address)
        h2 == IF h1.has_l2 THEN [h1 EXCEPT !.l2 = r2.c] ELSE h1
        penalty2 == h.l1_penalty + (IF h.has_l2 THEN h.l2_penalty ELSE 0)
        r3 == Cache_read(h2.l3, address)
        h3 == IF h2.has_l3 THEN [h2 EXCEPT !.l3 = r3.c] ELSE h2
        penalty3 == penalty2 + (IF h.has_l3 THEN h.l3_penalty ELSE 0)
    IN IF r1.hit
       THEN [accessed |-> FALSE, probed |-> {1},
             h |-> [h1 EXCEPT !.l1_hits = @ + 1,
                              !.total_penalty_cycles = @ + 1]]
       ELSE IF h1.has_l2 /\ r2.hit
       THEN [accessed |-> FALSE, probed |-> {1, 2},
             h |-> [h2 EXCEPT !.l2_hits = @ + 1,
                              !.l1 = Cache_insert(@, address, FALSE),
                              !.total_penalty_cycles = @ + h.l1_penalty + 10]]
       ELSE IF h2.has_l3 /\ r3.hit
       THEN [accessed |-> FALSE,
             probed |-> {1, 3} \cup (IF h.has_l2 THEN {2} ELSE {}),
             h |-> [h3 EXCEPT !.l3_hits = @ + 1,
                              !.l1 = Cache_insert(@, address, FALSE),
                              !.total_penalty_cycles = @ + penalty2 + 50]]
       ELSE [accessed |-> TRUE,
             probed |-> {1} \cup (IF h.has_l2 THEN {2} ELSE {})
                            \cup (IF h.has_l3 THEN {3} ELSE {}),
             h |-> [h3 EXCEPT !.memory_accesses = @ + 1,
                              !.l3 = IF h.has_l3 THEN Cache_insert(@, address, FALSE)
                                     ELSE @,
                              !.l2 = IF h.has_l2 THEN Cache_insert(@, address, FALSE)
                                     ELSE @,
                              !.l1 = Cache_insert(@, address, FALSE),
                              !.total_penalty_cycles =
                                  @ + penalty3 + h.memory_penalty]]

\* CacheHierarchy::read on a hierarchy h: what it returns (accessed), the
\* hierarchy after it, and the levels it has called read on
Hierarchy_read(h, address) ==
    LET r1 == Cache_read(h.l1, address)
        h1 == [h EXCEPT !.total_accesses = @ + 1, !.total_reads = @ + 1, !.l1 = r1.c]
        r2 == Cache_read(h1.l2, address)
        h2 == IF h1.has_l2 THEN [h1 EXCEPT !.l2 = r2.c] ELSE h1
        penalty2 == h.l1_penalty + (IF h.has_l2 THEN h.l2_penalty ELSE 0)
        r3 == Cache_read(h2.l3, address)
        h3 == IF h2.has_l3 THEN [h2 EXCEPT !.l3 = r3.c] ELSE h2
        penalty3 == penalty2 + (IF h.has_l3 THEN h.l3_penalty ELSE 0)
    IN IF r1.hit
       THEN [accessed |-> FALSE, probed |-> {1},
             h |-> [h1 EXCEPT !.l1_hits = @ + 1,
                              !.total_penalty_cycles = @ + 1]]
       ELSE IF h1.has_l2 /\ r2.hit
       THEN [accessed |-> FALSE, probed |-> {1, 2},
             h |-> [h2 EXCEPT !.l2_hits = @ + 1,
                              !.l1 = Cache_insert(@, address, FALSE),
                              !.total_penalty_cycles = @ + h.l1_penalty + 10]]
       ELSE IF h2.has_l3 /\ r3.hit
       THEN [accessed |-> FALSE,
             probed |-> {1, 3} \cup (IF h.has_l2 THEN {2} ELSE {}),
             h |-> [h3 EXCEPT !.l3_hits = @ + 1,
                              !.l2 = IF h.has_l2 THEN Cache_insert(@, address, FALSE)
                                     ELSE @,
                              !.l1 = Cache_insert(@, address, FALSE),
                              !.total_penalty_cycles = @ + penalty2 + 50]]
       ELSE [accessed |-> TRUE,
             probed |-> {1} \cup (IF h.has_l2 THEN {2} ELSE {})
                            \cup (IF h.has_l3 THEN {3} ELSE {}),
             h |-> [h3 EXCEPT !.memory_accesses = @ + 1,
                              !.l3 = IF h.has_l3 THEN Cache_insert(@, address, FALSE)
                                     ELSE @,
                              !.l2 = IF h.has_l2 THEN Cache_insert(@, address, FALSE)
                                     ELSE @,
                              !.l1 = Cache_insert(@, address, FALSE),
                              !.total_penalty_cycles =
                                  @ + penalty3 + h.memory_penalty]]

\* write counting the write to memory only when no level holds the block
Hierarchy_write_ThroughOnMissOnly(h, address) ==
    LET r1 == Cache_write(h.l1, address)
        h1 == [h EXCEPT !.total_accesses = @ + 1, !.total_writes = @ + 1, !.l1 = r1.c]
        is_write_through == h.l1.write_policy = WRITE_THROUGH
        mark_dirty == ~is_write_through
        through == IF is_write_through THEN 1 ELSE 0
        r2 == Cache_write(h1.l2, address)
        h2 == IF h1.has_l2 THEN [h1 EXCEPT !.l2 = r2.c] ELSE h1
        penalty2 == h.l1_penalty + (IF h.has_l2 THEN h.l2_penalty ELSE 0)
        r3 == Cache_write(h2.l3, address)
        h3 == IF h2.has_l3 THEN [h2 EXCEPT !.l3 = r3.c] ELSE h2
        penalty3 == penalty2 + (IF h.has_l3 THEN h.l3_penalty ELSE 0)
    IN IF r1.hit
       THEN [accessed |-> FALSE, probed |-> {1},
             h |-> [h1 EXCEPT !.l1_hits = @ + 1,
                              !.total_penalty_cycles = @ + 1]]
       ELSE IF h1.has_l2 /\ r2.hit
       THEN [accessed |-> FALSE, probed |-> {1, 2},
             h |-> [h2 EXCEPT !.l2_hits = @ + 1,
                              !.l1 = Cache_insert(@, address,
                                                  h.l1.write_policy = WRITE_BACK),
                              !.total_penalty_cycles = @ + h.l1_penalty + 10]]
       ELSE IF h2.has_l3 /\ r3.hit
       THEN [accessed |-> FALSE,
             probed |-> {1, 3} \cup (IF h.has_l2 THEN {2} ELSE {}),
             h |-> [h3 EXCEPT !.l3_hits = @ + 1,
                              !.l2 = IF h.has_l2
                                     THEN Cache_insert(@, address, mark_dirty) ELSE @,
                              !.l1 = Cache_insert(@, address, mark_dirty),
                              !.total_penalty_cycles = @ + penalty2 + 50]]
       ELSE [accessed |-> TRUE,
             probed |-> {1} \cup (IF h.has_l2 THEN {2} ELSE {})
                            \cup (IF h.has_l3 THEN {3} ELSE {}),
             h |-> [h3 EXCEPT !.memory_accesses = @ + 1,
                              !.memory_writes = @ + through,
                              !.l3 = IF h.has_l3
                                     THEN Cache_insert(@, address, mark_dirty) ELSE @,
                              !.l2 = IF h.has_l2
                                     THEN Cache_insert(@, address, mark_dirty) ELSE @,
                              !.l1 = Cache_insert(@, address, mark_dirty),
                              !.total_penalty_cycles =
                                  @ + penalty3 + h.memory_penalty]]

\* write that writes L2 as well when L1 hits
Hierarchy_write_AllLevelsOnHit(h, address) ==
    LET r1 == Cache_write(h.l1, address)
        h1 == [h EXCEPT !.total_accesses = @ + 1, !.total_writes = @ + 1, !.l1 = r1.c]
        is_write_through == h.l1.write_policy = WRITE_THROUGH
        mark_dirty == ~is_write_through
        through == IF is_write_through THEN 1 ELSE 0
        r2 == Cache_write(h1.l2, address)
        h2 == IF h1.has_l2 THEN [h1 EXCEPT !.l2 = r2.c] ELSE h1
        penalty2 == h.l1_penalty + (IF h.has_l2 THEN h.l2_penalty ELSE 0)
        r3 == Cache_write(h2.l3, address)
        h3 == IF h2.has_l3 THEN [h2 EXCEPT !.l3 = r3.c] ELSE h2
        penalty3 == penalty2 + (IF h.has_l3 THEN h.l3_penalty ELSE 0)
    IN IF r1.hit
       THEN [accessed |-> FALSE, probed |-> {1} \cup (IF h.has_l2 THEN {2} ELSE {}),
             h |-> [h2 EXCEPT !.l1_hits = @ + 1,
                              !.memory_writes = @ + through,
                              !.total_penalty_cycles = @ + 1]]
       ELSE IF h1.has_l2 /\ r2.hit
       THEN [accessed |-> FALSE, probed |-> {1, 2},
             h |-> [h2 EXCEPT !.l2_hits = @ + 1,
                              !.memory_writes = @ + through,
                              !.l1 = Cache_insert(@, address,
                                                  h.l1.write_policy = WRITE_BACK),
                              !.total_penalty_cycles = @ + h.l1_penalty + 10]]
       ELSE IF h2.has_l3 /\ r3.hit
       THEN [accessed |-> FALSE,
             probed |-> {1, 3} \cup (IF h.has_l2 THEN {2} ELSE {}),
             h |-> [h3 EXCEPT !.l3_hits = @ + 1,
                              !.memory_writes = @ + through,
                              !.l2 = IF h.has_l2
                                     THEN Cache_insert(@, address, mark_dirty) ELSE @,
                              !.l1 = Cache_insert(@, address, mark_dirty),
                              !.total_penalty_cycles = @ + penalty2 + 50]]
       ELSE [accessed |-> TRUE,
             probed |-> {1} \cup (IF h.has_l2 THEN {2} ELSE {})
                            \cup (IF h.has_l3 THEN {3} ELSE {}),
             h |-> [h3 EXCEPT !.memory_accesses = @ + 1,
                              !.memory_writes = @ + through,
                              !.l3 = IF h.has_l3
                                     THEN Cache_insert(@, address, mark_dirty) ELSE @,
                              !.l2 = IF h.has_l2
                                     THEN Cache_insert(@, address, mark_dirty) ELSE @,
                              !.l1 = Cache_insert(@, address, mark_dirty),
                              !.total_penalty_cycles =
                                  @ + penalty3 + h.memory_penalty]]

\* CacheHierarchy::write on a hierarchy h, as Hierarchy_read
Hierarchy_write(h, address) ==
    LET r1 == Cache_write(h.l1, address)
        h1 == [h EXCEPT !.total_accesses = @ + 1, !.total_writes = @ + 1, !.l1 = r1.c]
        is_write_through == h.l1.write_policy = WRITE_THROUGH
        mark_dirty == ~is_write_through
        through == IF is_write_through THEN 1 ELSE 0
        r2 == Cache_write(h1.l2, address)
        h2 == IF h1.has_l2 THEN [h1 EXCEPT !.l2 = r2.c] ELSE h1
        penalty2 == h.l1_penalty + (IF h.has_l2 THEN h.l2_penalty ELSE 0)
        r3 == Cache_write(h2.l3, address)
        h3 == IF h2.has_l3 THEN [h2 EXCEPT !.l3 = r3.c] ELSE h2
        penalty3 == penalty2 + (IF h.has_l3 THEN h.l3_penalty ELSE 0)
    IN IF r1.hit
       THEN [accessed |-> FALSE, probed |-> {1},
             h |-> [h1 EXCEPT !.l1_hits = @ + 1,
                              !.memory_writes = @ + through,
                              !.total_penalty_cycles = @ + 1]]
       ELSE IF h1.has_l2 /\ r2.hit
       THEN [accessed |-> FALSE, probed |-> {1, 2},
             h |-> [h2 EXCEPT !.l2_hits = @ + 1,
                              !.memory_writes = @ + through,
                              !.l1 = Cache_insert(@, address,
                                                  h.l1.write_policy = WRITE_BACK),
                              !.total_penalty_cycles = @ + h.l1_penalty + 10]]
       ELSE IF h2.has_l3 /\ r3.hit
       THEN [accessed |-> FALSE,
             probed |-> {1, 3} \cup (IF h.has_l2 THEN {2} ELSE {}),
             h |-> [h3 EXCEPT !.l3_hits = @ + 1,
                              !.memory_writes = @ + through,
                              !.l2 = IF h.has_l2
                                     THEN Cache_insert(@, address, mark_dirty) ELSE @,
                              !.l1 = Cache_insert(@, address, mark_dirty),
                              !.total_penalty_cycles = @ + penalty2 + 50]]
       ELSE [accessed |-> TRUE,
             probed |-> {1} \cup (IF h.has_l2 THEN {2} ELSE {})
                            \cup (IF h.has_l3 THEN {3} ELSE {}),
             h |-> [h3 EXCEPT !.memory_accesses = @ + 1,
                              !.memory_writes = @ + through,
                              !.l3 = IF h.has_l3
                                     THEN Cache_insert(@, address, mark_dirty) ELSE @,
                              !.l2 = IF h.has_l2
                                     THEN Cache_insert(@, address, mark_dirty) ELSE @,
                              !.l1 = Cache_insert(@, address, mark_dirty),
                              !.total_penalty_cycles =
                                  @ + penalty3 + h.memory_penalty]]

\* the probes after a call that has probed the levels in probed
Probed(probed) ==
    [l1 |-> probes.l1 + Bit(1 \in probed),
     l2 |-> probes.l2 + Bit(2 \in probed),
     l3 |-> probes.l3 + Bit(3 \in probed)]

\* CacheHierarchy::read
CacheHierarchy_read(address, verbose) ==
    /\ hier.total_accesses < MaxHierAccesses
    /\ LET r == Hierarchy_read(hier, address)
       IN /\ hier' = r.h
          /\ probes' = Probed(r.probed)
          /\ ret' = [op |-> "hierarchy read", arg |-> address,
                     result |-> Bit(r.accessed)]
    /\ UNCHANGED <<mm, buddy, vm, cache>>

\* CacheHierarchy::write
CacheHierarchy_write(address, verbose) ==
    /\ hier.total_accesses < MaxHierAccesses
    /\ LET r == Hierarchy_write(hier, address)
       IN /\ hier' = r.h
          /\ probes' = Probed(r.probed)
          /\ ret' = [op |-> "hierarchy write", arg |-> address,
                     result |-> Bit(r.accessed)]
    /\ UNCHANGED <<mm, buddy, vm, cache>>

\* CacheHierarchy::clearAll
clearAll ==
    /\ hier' = [hier EXCEPT !.l1 = Cache_clear(@),
                            !.l2 = IF hier.has_l2 THEN Cache_clear(@) ELSE @,
                            !.l3 = IF hier.has_l3 THEN Cache_clear(@) ELSE @,
                            !.total_accesses = 0, !.total_reads = 0,
                            !.total_writes = 0, !.l1_hits = 0, !.l2_hits = 0,
                            !.l3_hits = 0, !.memory_accesses = 0,
                            !.memory_writes = 0, !.total_penalty_cycles = 0]
    /\ probes' = NoProbes
    /\ ret' = [op |-> "clearAll", arg |-> 0, result |-> 0]
    /\ UNCHANGED <<mm, buddy, vm, cache>>

(***************************************************************************)
(* UNIFIED MEMORY SYSTEM  (src/src/main.cpp), with the virtual memory and  *)
(* the cache hierarchy enabled.                                            *)
(*                                                                         *)
(* physical_address is a size_t.  A translation that found no frame        *)
(* returns frame_number * page_size + offset with frame_number = -1, which *)
(* wraps; the model keeps the negative number the value is congruent to.   *)
(* For the block sizes and set counts used, which divide 2^64, \div and %  *)
(* on that number give the set index of the wrapped address and a tag      *)
(* that differs from the tag of every other address.                       *)
(***************************************************************************)
\* UnifiedMemorySystem::accessMemory
accessMemory(address, is_write) ==
    /\ vm.total_accesses < MaxAccesses
    /\ \A p \in DOMAIN vm.page_table : vm.page_table[p].access_count < MaxAccesses
    /\ hier.total_accesses < MaxHierAccesses
    /\ \E t \in Translations(vm, address) :
          LET physical_address == t.result
              r == IF is_write THEN Hierarchy_write(hier, physical_address)
                   ELSE Hierarchy_read(hier, physical_address)
          IN /\ vm' = t.v
             /\ ret' = [op |-> "accessMemory", arg |-> address,
                        result |-> physical_address, is_write |-> is_write]
             /\ IF physical_address = -1
                THEN UNCHANGED <<hier, probes>>
                ELSE /\ hier' = r.h
                     /\ probes' = Probed(r.probed)
    /\ UNCHANGED <<mm, buddy, cache>>


(***************************************************************************)
(* SPECIFICATIONS: one per component.  Init is the object as its           *)
(* constructor leaves it, for each of the configurations listed; Next is   *)
(* any call of a public method.                                            *)
(***************************************************************************)
\* the sizes and ids the calls are made with
AllocSizes == 0 .. 7
AllocIds == -1 .. (MaxAttempts + 1)

AllocInit ==
    /\ \E size \in ArenaSizes : mm = MemoryManager(size)
    /\ buddy = BuddyAllocator(1, 1)
    /\ vm = VirtualMemorySimulator(1, 1, 1, "fifo", <<>>)
    /\ cache = Cache(1, 1, DIRECT_MAPPED, FIFO, WRITE_THROUGH)
    /\ hier = CacheHierarchy(LevelArgs(1, 1, DIRECT_MAPPED, FIFO, WRITE_THROUGH),
                             LevelArgs(0, 1, DIRECT_MAPPED, FIFO, WRITE_THROUGH),
                             LevelArgs(0, 1, DIRECT_MAPPED, FIFO, WRITE_THROUGH))
    /\ probes = NoProbes
    /\ ret = NoCall

AllocNext ==
    \/ \E s \in AllocationStrategy : setStrategy(s)
    \/ \E size \in AllocSizes : MemoryManager_allocate(size)
    \/ \E id \in AllocIds : MemoryManager_deallocate(id)

SpecAlloc == AllocInit /\ [][AllocNext]_vars

\* the arenas of the worked examples, and for each the sizes its example
\* allocates
SeedArenaSizes == {1000, 1024}

SeedSizes(m) ==
    IF m.total_memory = 1000 THEN {500, 100, 300, 80} ELSE {100, 200, 50}

SeedIds == 1 .. MaxAttempts

AllocSeedInit ==
    /\ \E size \in SeedArenaSizes : mm = MemoryManager(size)
    /\ buddy = BuddyAllocator(1, 1)
    /\ vm = VirtualMemorySimulator(1, 1, 1, "fifo", <<>>)
    /\ cache = Cache(1, 1, DIRECT_MAPPED, FIFO, WRITE_THROUGH)
    /\ hier = CacheHierarchy(LevelArgs(1, 1, DIRECT_MAPPED, FIFO, WRITE_THROUGH),
                             LevelArgs(0, 1, DIRECT_MAPPED, FIFO, WRITE_THROUGH),
                             LevelArgs(0, 1, DIRECT_MAPPED, FIFO, WRITE_THROUGH))
    /\ probes = NoProbes
    /\ ret = NoCall

AllocSeedNext ==
    \/ \E s \in AllocationStrategy : setStrategy(s)
    \/ \E size \in SeedSizes(mm) : MemoryManager_allocate(size)
    \/ \E id \in SeedIds : MemoryManager_deallocate(id)

SpecAllocSeed == AllocSeedInit /\ [][AllocSeedNext]_vars

\* the sizes `init memory <size> buddy` is run with
BuddyArenaSizes == {4, 16, 24, 64}

\* the sizes allocate is called with, around the block sizes of the arena
RequestSizes(b) ==
    {0, 1, b.min_block_size, b.min_block_size + 1, 2 * b.min_block_size,
     b.total_memory, b.total_memory + 1}

BuddyIds == 0 .. (MaxAllocations + 1)

BuddyInit ==
    /\ \E size \in BuddyArenaSizes : buddy = initializeMemory(size)
    /\ mm = MemoryManager(0)
    /\ vm = VirtualMemorySimulator(1, 1, 1, "fifo", <<>>)
    /\ cache = Cache(1, 1, DIRECT_MAPPED, FIFO, WRITE_THROUGH)
    /\ hier = CacheHierarchy(LevelArgs(1, 1, DIRECT_MAPPED, FIFO, WRITE_THROUGH),
                             LevelArgs(0, 1, DIRECT_MAPPED, FIFO, WRITE_THROUGH),
                             LevelArgs(0, 1, DIRECT_MAPPED, FIFO, WRITE_THROUGH))
    /\ probes = NoProbes
    /\ ret = NoCall

BuddyNext ==
    \/ \E size \in RequestSizes(buddy) : BuddyAllocator_allocate(size)
    \/ \E id \in BuddyIds : BuddyAllocator_deallocate(id)

SpecBuddy == BuddyInit /\ [][BuddyNext]_vars

\* `init memory 1024 buddy`, the arena of the worked example, with requests
\* of the smallest block and of a size that is rounded up
SeedBuddyArena == 1024

SeedRequestSizes == {16, 100}

\* the ids `free <id>` is run with: the first two blocks handed out
SeedBuddyIds == {1, 2}

BuddySeedInit ==
    /\ buddy = initializeMemory(SeedBuddyArena)
    /\ mm = MemoryManager(0)
    /\ vm = VirtualMemorySimulator(1, 1, 1, "fifo", <<>>)
    /\ cache = Cache(1, 1, DIRECT_MAPPED, FIFO, WRITE_THROUGH)
    /\ hier = CacheHierarchy(LevelArgs(1, 1, DIRECT_MAPPED, FIFO, WRITE_THROUGH),
                             LevelArgs(0, 1, DIRECT_MAPPED, FIFO, WRITE_THROUGH),
                             LevelArgs(0, 1, DIRECT_MAPPED, FIFO, WRITE_THROUGH))
    /\ probes = NoProbes
    /\ ret = NoCall

BuddySeedNext ==
    \/ \E size \in SeedRequestSizes : BuddyAllocator_allocate(size)
    \/ \E id \in SeedBuddyIds : BuddyAllocator_deallocate(id)

SpecBuddySeed == BuddySeedInit /\ [][BuddySeedNext]_vars


\* the configurations `init vm <vm_size> <page_size> [policy]` is run with,
\* as <<vm_size, pm_size, page_size>>: more pages than frames, more frames
\* than pages (clamped), a single frame, no frame at all, and a virtual
\* memory that is not a whole number of pages
VMConfigs == {<<8, 4, 2>>, <<4, 8, 2>>, <<6, 2, 2>>, <<4, 1, 2>>, <<5, 2, 2>>}

PolicyStrings == {"fifo", "lru", "clock"}

\* the addresses translated: every address of the virtual memory and two
\* beyond it
VirtualAddresses(v) == 0 .. v.virtual_memory_size + 1

VMInit ==
    /\ \E c \in VMConfigs, policy_str \in PolicyStrings :
          \E beyond \in [1 .. Cardinality(IndexesBeyond(c[1], c[3])) -> StorageContents] :
             vm = VirtualMemorySimulator(c[1], c[2], c[3], policy_str, beyond)
    /\ mm = MemoryManager(0)
    /\ buddy = BuddyAllocator(1, 1)
    /\ cache = Cache(1, 1, DIRECT_MAPPED, FIFO, WRITE_THROUGH)
    /\ hier = CacheHierarchy(LevelArgs(1, 1, DIRECT_MAPPED, FIFO, WRITE_THROUGH),
                             LevelArgs(0, 1, DIRECT_MAPPED, FIFO, WRITE_THROUGH),
                             LevelArgs(0, 1, DIRECT_MAPPED, FIFO, WRITE_THROUGH))
    /\ probes = NoProbes
    /\ ret = NoCall

VMNext ==
    \/ \E va \in VirtualAddresses(vm) : translateAddress(va)
    \/ \E policy_str \in PolicyStrings : setReplacementPolicy(policy_str)
    \/ \E v \in BOOLEAN : setVerbose(v)
    \/ reset

SpecVM == VMInit /\ [][VMNext]_vars

\* the levels made: <<total_lines, blk_size, assoc>>, each with either
\* replacement policy and either write policy.  Each has a set and a block
\* size of at least 1: with num_sets = 0 or blk_size = 0 the first call
\* divides by zero in getSetIndex and the process ends there.
LevelShapes ==
    {<<1, 2, DIRECT_MAPPED>>, <<2, 1, DIRECT_MAPPED>>, <<2, 1, TWO_WAY>>}

\* the addresses a level is called with: with block size 2, two bytes of a
\* block and another block; with block size 1, three blocks, the first and
\* the last of one set
Addresses == {0, 1, 2}

CacheInit ==
    /\ \E sh \in LevelShapes, repl \in {FIFO, LRU}, wr \in {WRITE_THROUGH, WRITE_BACK} :
          cache = Cache(sh[1], sh[2], sh[3], repl, wr)
    /\ hier = CacheHierarchy(LevelArgs(1, 1, DIRECT_MAPPED, FIFO, WRITE_THROUGH),
                             LevelArgs(0, 1, DIRECT_MAPPED, FIFO, WRITE_THROUGH),
                             LevelArgs(0, 1, DIRECT_MAPPED, FIFO, WRITE_THROUGH))
    /\ probes = NoProbes
    /\ mm = MemoryManager(0)
    /\ buddy = BuddyAllocator(1, 1)
    /\ vm = VirtualMemorySimulator(1, 1, 1, "fifo", <<>>)
    /\ ret = NoCall

CacheNext ==
    \/ \E address \in Addresses : read(address)
    \/ \E address \in Addresses : write(address)
    \/ \E address \in Addresses, is_dirty \in BOOLEAN : insert(address, is_dirty)
    \/ \E address \in Addresses : evict(address)
    \/ clear

SpecCache == CacheInit /\ [][CacheNext]_vars

\* the hierarchies `init cache ...` is run with: the lines of L1, L2 and L3
\* (0: no such level), the block size and the associativity of all three
HierShapes ==
    {<<1, 0, 0, 2, DIRECT_MAPPED>>, <<1, 2, 0, 2, FULLY_ASSOCIATIVE>>,
     <<1, 1, 2, 2, FULLY_ASSOCIATIVE>>, <<1, 0, 2, 2, DIRECT_MAPPED>>}

\* the write policies of L1, L2 and L3
HierWritePolicies ==
    {<<WRITE_THROUGH, WRITE_BACK, WRITE_BACK>>,
     <<WRITE_BACK, WRITE_THROUGH, WRITE_BACK>>}

\* the physical addresses accessed: a block, a second byte of it, and
\* another block
HierAddresses == {0, 1, 2}

HierInit ==
    /\ \E sh \in HierShapes, repl \in {FIFO, LRU}, wr \in HierWritePolicies :
          hier = CacheHierarchy(LevelArgs(sh[1], sh[4], sh[5], repl, wr[1]),
                                LevelArgs(sh[2], sh[4], sh[5], repl, wr[2]),
                                LevelArgs(sh[3], sh[4], sh[5], repl, wr[3]))
    /\ probes = NoProbes
    /\ cache = Cache(1, 1, DIRECT_MAPPED, FIFO, WRITE_THROUGH)
    /\ mm = MemoryManager(0)
    /\ buddy = BuddyAllocator(1, 1)
    /\ vm = VirtualMemorySimulator(1, 1, 1, "fifo", <<>>)
    /\ ret = NoCall

HierNext ==
    \/ \E address \in HierAddresses, verbose \in BOOLEAN :
          CacheHierarchy_read(address, verbose)
    \/ \E address \in HierAddresses, verbose \in BOOLEAN :
          CacheHierarchy_write(address, verbose)
    \/ clearAll

SpecHier == HierInit /\ [][HierNext]_vars

\* the hierarchy of the worked example, `init cache` with 1, 2 and 4 lines
\* of 64 bytes, all write-back: the associativities of L1, L2 and L3 that
\* divide those capacities
SeedAssociativities ==
    {DIRECT_MAPPED, FULLY_ASSOCIATIVE}
    \X {DIRECT_MAPPED, TWO_WAY, FULLY_ASSOCIATIVE}
    \X {DIRECT_MAPPED, FOUR_WAY}

\* the first bytes of two blocks
SeedHierAddresses == {0, 64}

HierSeedInit ==
    /\ \E assoc \in SeedAssociativities, repl \in {FIFO, LRU} :
          hier = CacheHierarchy(LevelArgs(1, 64, assoc[1], repl, WRITE_BACK),
                                LevelArgs(2, 64, assoc[2], repl, WRITE_BACK),
                                LevelArgs(4, 64, assoc[3], repl, WRITE_BACK))
    /\ probes = NoProbes
    /\ cache = Cache(1, 1, DIRECT_MAPPED, FIFO, WRITE_THROUGH)
    /\ mm = MemoryManager(0)
    /\ buddy = BuddyAllocator(1, 1)
    /\ vm = VirtualMemorySimulator(1, 1, 1, "fifo", <<>>)
    /\ ret = NoCall

HierSeedNext ==
    \/ \E address \in SeedHierAddresses, verbose \in BOOLEAN :
          CacheHierarchy_read(address, verbose)
    \/ \E address \in SeedHierAddresses, verbose \in BOOLEAN :
          CacheHierarchy_write(address, verbose)
    \/ clearAll

SpecHierSeed == HierSeedInit /\ [][HierSeedNext]_vars


\* `init memory <pm>`, `init vm <vm> <page>`, `init cache ...`: the virtual
\* memory sizes, physical memory sizes and page sizes of the unified runs
UnifiedConfigs == {<<8, 4, 2>>, <<4, 1, 2>>, <<5, 2, 2>>}

UnifiedShapes == {<<1, 2, 0, 2, FULLY_ASSOCIATIVE>>, <<1, 0, 2, 2, DIRECT_MAPPED>>}

\* the addresses accessed: the first page, the second, the last address of
\* the virtual memory and the first beyond it
UnifiedAddresses(v) ==
    {0, 1, v.page_size, v.virtual_memory_size - 1, v.virtual_memory_size}

UnifiedInit ==
    /\ \E c \in UnifiedConfigs, policy_str \in {"fifo", "lru"} :
          \E beyond \in [1 .. Cardinality(IndexesBeyond(c[1], c[3])) -> StorageContents] :
             vm = VirtualMemorySimulator(c[1], c[2], c[3], policy_str, beyond)
    /\ \E sh \in UnifiedShapes, wr \in HierWritePolicies :
          hier = CacheHierarchy(LevelArgs(sh[1], sh[4], sh[5], LRU, wr[1]),
                                LevelArgs(sh[2], sh[4], sh[5], LRU, wr[2]),
                                LevelArgs(sh[3], sh[4], sh[5], LRU, wr[3]))
    /\ probes = NoProbes
    /\ cache = Cache(1, 1, DIRECT_MAPPED, FIFO, WRITE_THROUGH)
    /\ mm = MemoryManager(0)
    /\ buddy = BuddyAllocator(1, 1)
    /\ ret = NoCall

UnifiedNext ==
    \E address \in UnifiedAddresses(vm), is_write \in BOOLEAN :
        accessMemory(address, is_write)

SpecUnified == UnifiedInit /\ [][UnifiedNext]_vars


\* the two allocators side by side, each on `init memory <size>`: the
\* classic one as `init memory <size>` builds it, the buddy one as
\* `init memory <size> buddy` does
BothArenaSizes == {32}

BothRequestSizes == {0, 16}

BothIds == 1 .. MaxAllocations

BothInit ==
    /\ \E size \in BothArenaSizes :
          /\ mm = MemoryManager(size)
          /\ buddy = initializeMemory(size)
    /\ vm = VirtualMemorySimulator(1, 1, 1, "fifo", <<>>)
    /\ cache = Cache(1, 1, DIRECT_MAPPED, FIFO, WRITE_THROUGH)
    /\ hier = CacheHierarchy(LevelArgs(1, 1, DIRECT_MAPPED, FIFO, WRITE_THROUGH),
                             LevelArgs(0, 1, DIRECT_MAPPED, FIFO, WRITE_THROUGH),
                             LevelArgs(0, 1, DIRECT_MAPPED, FIFO, WRITE_THROUGH))
    /\ probes = NoProbes
    /\ ret = NoCall

BothNext ==
    \/ \E s \in AllocationStrategy : setStrategy(s)
    \/ \E size \in BothRequestSizes : MemoryManager_allocate(size)
    \/ \E id \in BothIds : MemoryManager_deallocate(id)
    \/ \E size \in BothRequestSizes : BuddyAllocator_allocate(size)
    \/ \E id \in BothIds : BuddyAllocator_deallocate(id)

SpecBoth == BothInit /\ [][BothNext]_vars


\* one level as `init cache` builds it: a set of two ways, where a victim
\* is chosen, and the level of the writeback example (direct-mapped, 4
\* lines, 64-byte blocks)
SeedLevelShapes == {<<2, 1, TWO_WAY>>, <<4, 64, DIRECT_MAPPED>>}

\* three blocks of the one set, and the two addresses of the example
SeedLevelAddresses(c) == IF c.block_size = 1 THEN {0, 1, 2} ELSE {0, 256}

CacheSeedInit ==
    /\ \E sh \in SeedLevelShapes, repl \in {FIFO, LRU}, wr \in {WRITE_THROUGH, WRITE_BACK} :
          cache = Cache(sh[1], sh[2], sh[3], repl, wr)
    /\ hier = CacheHierarchy(LevelArgs(1, 1, DIRECT_MAPPED, FIFO, WRITE_THROUGH),
                             LevelArgs(0, 1, DIRECT_MAPPED, FIFO, WRITE_THROUGH),
                             LevelArgs(0, 1, DIRECT_MAPPED, FIFO, WRITE_THROUGH))
    /\ probes = NoProbes
    /\ mm = MemoryManager(0)
    /\ buddy = BuddyAllocator(1, 1)
    /\ vm = VirtualMemorySimulator(1, 1, 1, "fifo", <<>>)
    /\ ret = NoCall

CacheSeedNext ==
    \/ \E address \in SeedLevelAddresses(cache) : readWithin(MaxSeedAccesses, address)
    \/ \E address \in SeedLevelAddresses(cache) : writeWithin(MaxSeedAccesses, address)
    \/ \E address \in SeedLevelAddresses(cache), is_dirty \in BOOLEAN :
          insertWithin(MaxSeedAccesses, address, is_dirty)
    \/ \E address \in SeedLevelAddresses(cache) : evict(address)

SpecCacheSeed == CacheSeedInit /\ [][CacheSeedNext]_vars


(***************************************************************************)
(* PROPERTIES OF THE CONTIGUOUS ALLOCATOR                                  *)
(***************************************************************************)
FreeFit(blocks, i, size) == ~blocks[i].is_allocated /\ blocks[i].size >= size

\* the list read from head tiles [0, total_memory)
TilesArena(m) ==
    /\ Len(m.blocks) >= 1
    /\ m.blocks[1].start_address = 0
    /\ \A i \in 1 .. Len(m.blocks) - 1 :
          m.blocks[i + 1].start_address = m.blocks[i].start_address + m.blocks[i].size
    /\ SumSeq([i \in 1 .. Len(m.blocks) |-> m.blocks[i].size]) = m.total_memory

\* C1, as stated: in every reachable state the block list read from head is
\* a gap-free, overlap-free cover of [0, total_memory): the first block
\* starts at 0, each block starts where its predecessor ends, every block
\* has size >= 1 and the sizes sum to total_memory.
C1_CoverWithPositiveSizes ==
    /\ TilesArena(mm)
    /\ \A i \in 1 .. Len(mm.blocks) : mm.blocks[i].size >= 1

\* C1, amended: the list is a gap-free, overlap-free cover of
\* [0, total_memory) in every reachable state, and every block has
\* size >= 1 whenever total_memory >= 1; the allocator constructed with
\* total_memory = 0 holds a single free block of size 0 for ever.
C1_Cover ==
    /\ TilesArena(mm)
    /\ mm.total_memory >= 1 => \A i \in 1 .. Len(mm.blocks) : mm.blocks[i].size >= 1
    /\ mm.total_memory = 0 => mm.blocks = <<MemoryBlock(0, 0, FALSE, -1)>>

\* C1: a block was freed between two others after the arena had been split
C1_Witness ==
    /\ ret.op = "deallocate" /\ ret.result = 1
    /\ Len(mm.blocks) >= 3
    /\ mm.allocation_successes >= 3

\* C2: in every state between operations, and so after every deallocate
\* whether it succeeded or not, no two list-adjacent blocks are both free.
C2_NoAdjacentFree ==
    \A i \in 1 .. Len(mm.blocks) - 1 :
        mm.blocks[i].is_allocated \/ mm.blocks[i + 1].is_allocated

\* C2: a deallocate merged the freed block with free neighbours on both
\* sides: every block allocated so far is free again in one block
C2_Witness ==
    /\ ret.op = "deallocate" /\ ret.result = 1
    /\ mm.allocation_successes >= 3
    /\ Len(mm.blocks) = 1

IsAllocateStep == mm'.allocation_attempts = mm.allocation_attempts + 1

\* C10: under BEST_FIT, allocate(size) with size >= 1 places the allocation
\* at the start of a free block of sufficient size that minimises
\* block.size - size, the lowest-address one among the equally tight, and
\* fails only if no free block of sufficient size exists.
C10_BestFitPlacement ==
    [][(IsAllocateStep /\ mm.strategy = BEST_FIT /\ ret'.arg >= 1) =>
         LET size == ret'.arg
             fits == {i \in 1 .. Len(mm.blocks) : FreeFit(mm.blocks, i, size)}
         IN IF fits = {}
            THEN ret'.result = -1 /\ mm'.blocks = mm.blocks
            ELSE \E i \in fits :
                   /\ \A j \in fits :
                        \/ mm.blocks[i].size < mm.blocks[j].size
                        \/ /\ mm.blocks[i].size = mm.blocks[j].size
                           /\ mm.blocks[i].start_address <= mm.blocks[j].start_address
                   /\ ret'.result = mm.next_block_id
                   /\ mm'.blocks[i] = MemoryBlock(mm.blocks[i].start_address, size,
                                                  TRUE, ret'.result)
      ]_vars

\* C10: a BEST_FIT allocation that passed over a lower, looser free block
\* and chose the lower of two equally tight ones
C10_Witness ==
    /\ ret.op = "allocate" /\ ret.result >= 1
    /\ mm.strategy = BEST_FIT
    /\ \E i, j, k \in 1 .. Len(mm.blocks) :
          /\ j < i /\ i < k
          /\ mm.blocks[i].block_id = ret.result /\ mm.blocks[i].is_allocated
          /\ ~mm.blocks[j].is_allocated /\ mm.blocks[j].size > ret.arg
          /\ ~mm.blocks[k].is_allocated /\ mm.blocks[k].size = ret.arg

\* the allocate step places `size` bytes, under the id it returns, at the
\* start of block i of the list before the step
PlacedIn(i, size) ==
    /\ ret'.result = mm.next_block_id
    /\ mm'.blocks[i] = MemoryBlock(mm.blocks[i].start_address, size, TRUE, ret'.result)

\* arena 1000 after allocating 500, 100 and 300 and freeing the 500 bytes
Freed500 ==
    <<MemoryBlock(0, 500, FALSE, -1), MemoryBlock(500, 100, TRUE, 2),
      MemoryBlock(600, 300, TRUE, 3), MemoryBlock(900, 100, FALSE, -1)>>

\* C11: under WORST_FIT, allocate(size) with size >= 1 places the allocation
\* in the largest free block of sufficient size, the lowest-address one among
\* the equally large; and in the arena of 1000 bytes, after allocating 500,
\* 100 and 300 and freeing the 500 bytes, allocate(80) lands at address 0.
C11_WorstFitPlacement ==
    [][(IsAllocateStep /\ mm.strategy = WORST_FIT /\ ret'.arg >= 1) =>
         LET size == ret'.arg
             fits == {i \in 1 .. Len(mm.blocks) : FreeFit(mm.blocks, i, size)}
         IN /\ fits # {} =>
                 \E i \in fits :
                    /\ \A j \in fits :
                         \/ mm.blocks[i].size > mm.blocks[j].size
                         \/ /\ mm.blocks[i].size = mm.blocks[j].size
                            /\ mm.blocks[i].start_address <= mm.blocks[j].start_address
                    /\ PlacedIn(i, size)
            /\ (mm.total_memory = 1000 /\ mm.blocks = Freed500 /\ size = 80) =>
                 \E i \in 1 .. Len(mm'.blocks) :
                    mm'.blocks[i] = MemoryBlock(0, 80, TRUE, ret'.result)
      ]_vars

\* C11: the example has run to its end, and a WORST_FIT allocation has
\* chosen the lower of two equally large free blocks
C11_Witness ==
    /\ ret.op = "allocate" /\ ret.arg = 80 /\ ret.result = 4
    /\ mm.strategy = WORST_FIT
    /\ mm.blocks = <<MemoryBlock(0, 80, TRUE, 4), MemoryBlock(80, 420, FALSE, -1),
                     MemoryBlock(500, 100, TRUE, 2), MemoryBlock(600, 300, TRUE, 3),
                     MemoryBlock(900, 100, FALSE, -1)>>

\* arena 1024 in the four states of its example: fresh, after malloc 100,
\* after malloc 200, after free 1
Arena1024 ==
    [fresh |-> <<MemoryBlock(0, 1024, FALSE, -1)>>,
     one |-> <<MemoryBlock(0, 100, TRUE, 1), MemoryBlock(100, 924, FALSE, -1)>>,
     two |-> <<MemoryBlock(0, 100, TRUE, 1), MemoryBlock(100, 200, TRUE, 2),
               MemoryBlock(300, 724, FALSE, -1)>>,
     hole |-> <<MemoryBlock(0, 100, FALSE, -1), MemoryBlock(100, 200, TRUE, 2),
                MemoryBlock(300, 724, FALSE, -1)>>,
     filled |-> <<MemoryBlock(0, 50, TRUE, 3), MemoryBlock(50, 50, FALSE, -1),
                  MemoryBlock(100, 200, TRUE, 2), MemoryBlock(300, 724, FALSE, -1)>>]

\* C12: under FIRST_FIT, allocate(size) with size >= 1 places the allocation
\* at the start of the lowest-address free block of sufficient size and
\* leaves the rest of that block as a free block right after it (none when
\* the sizes are equal); and in the arena of 1024 bytes malloc 100 gives id 1
\* at 0, malloc 200 id 2 at 100, and after free 1, malloc 50 gives id 3 at 0.
C12_FirstFitPlacement ==
    [][/\ (IsAllocateStep /\ mm.strategy = FIRST_FIT /\ ret'.arg >= 1) =>
            LET size == ret'.arg
                fits == {i \in 1 .. Len(mm.blocks) : FreeFit(mm.blocks, i, size)}
            IN /\ fits # {} =>
                    \E i \in fits :
                       /\ \A j \in fits :
                             mm.blocks[i].start_address <= mm.blocks[j].start_address
                       /\ PlacedIn(i, size)
                       /\ mm'.blocks =
                             SubSeq(mm.blocks, 1, i - 1)
                             \o <<MemoryBlock(mm.blocks[i].start_address, size, TRUE,
                                              ret'.result)>>
                             \o (IF mm.blocks[i].size = size THEN <<>>
                                 ELSE <<MemoryBlock(mm.blocks[i].start_address + size,
                                                    mm.blocks[i].size - size, FALSE, -1)>>)
                             \o SubSeq(mm.blocks, i + 1, Len(mm.blocks))
               /\ (mm.blocks = Arena1024.fresh /\ mm.next_block_id = 1 /\ size = 100) =>
                     ret'.result = 1 /\ mm'.blocks = Arena1024.one
               /\ (mm.blocks = Arena1024.one /\ mm.next_block_id = 2 /\ size = 200) =>
                     ret'.result = 2 /\ mm'.blocks = Arena1024.two
               /\ (mm.blocks = Arena1024.hole /\ mm.next_block_id = 3 /\ size = 50) =>
                     ret'.result = 3 /\ mm'.blocks = Arena1024.filled
       /\ (mm.blocks = Arena1024.two /\ ret'.op = "deallocate" /\ ret'.arg = 1
           /\ ret' # ret) =>
            mm'.blocks = Arena1024.hole
      ]_vars

\* C12: the example has run to its end
C12_Witness ==
    /\ ret.op = "allocate" /\ ret.arg = 50 /\ ret.result = 3
    /\ mm.strategy = FIRST_FIT
    /\ mm.blocks = Arena1024.filled

\* the allocate(80) step of the example of arena 1000, under BEST_FIT
BestFitExampleStep ==
    /\ IsAllocateStep /\ mm.strategy = BEST_FIT /\ ret'.arg = 80
    /\ mm.total_memory = 1000 /\ mm.blocks = Freed500

\* C13, as stated: in the arena of 1000 bytes under BEST_FIT, after
\* allocating 500, 100 and 300 and freeing the 500 bytes, allocate(80) is
\* placed at address 0.
C13_BestFitAtZero ==
    [][BestFitExampleStep =>
         \E i \in 1 .. Len(mm'.blocks) :
            mm'.blocks[i] = MemoryBlock(0, 80, TRUE, ret'.result)]_vars

\* C13, amended: in that state allocate(80) under BEST_FIT is placed at
\* address 900, in the free block of 100 bytes that ends the arena (the
\* tightest fit), and the block of 500 bytes at address 0 stays free.
C13_BestFitAt900 ==
    [][BestFitExampleStep =>
         /\ ret'.result = mm.next_block_id
         /\ mm'.blocks = <<MemoryBlock(0, 500, FALSE, -1), MemoryBlock(500, 100, TRUE, 2),
                           MemoryBlock(600, 300, TRUE, 3),
                           MemoryBlock(900, 80, TRUE, ret'.result),
                           MemoryBlock(980, 20, FALSE, -1)>>]_vars

\* C13: the example has run to its end under BEST_FIT
C13_Witness ==
    /\ ret.op = "allocate" /\ ret.arg = 80 /\ ret.result = 4
    /\ mm.strategy = BEST_FIT
    /\ mm.total_memory = 1000
    /\ \E i \in 1 .. Len(mm.blocks) : mm.blocks[i] = MemoryBlock(900, 80, TRUE, 4)
    /\ mm.blocks[1] = MemoryBlock(0, 500, FALSE, -1)

NoLiveAllocation == \A i \in 1 .. Len(mm.blocks) : ~mm.blocks[i].is_allocated

\* C16: whenever no allocation is live (every block handed out so far has
\* been deallocated, under any strategy and in any order), the block list is
\* exactly one free block with start_address 0 and size total_memory.
C16_AllFreedIsOneBlock ==
    NoLiveAllocation => mm.blocks = <<MemoryBlock(0, mm.total_memory, FALSE, -1)>>

\* the end of the example of arena 1024: ids 1, 2, 3 were handed out, 1 was
\* freed first, then 2, and free 3 has just left [0,1024) in one block
C16_Witness ==
    /\ ret = [op |-> "deallocate", arg |-> 3, result |-> 1]
    /\ mm.total_memory = 1024
    /\ mm.allocation_successes = 3 /\ mm.next_block_id = 4
    /\ NoLiveAllocation
    /\ mm.blocks = Arena1024.fresh


\* the ids carried by the allocated blocks of m
LiveIds(m) ==
    {m.blocks[i].block_id : i \in {j \in DOMAIN m.blocks : m.blocks[j].is_allocated}}

IsDeallocateStep == ret'.op = "deallocate"

\* C25: deallocate(block_id) of the contiguous allocator returns true
\* exactly when an allocated block carries block_id; for every other id
\* (never issued, already freed, -1, 0) it returns false and leaves the block
\* list, next_block_id and every counter as they were.
C25_DeallocateUnknown ==
    [][IsDeallocateStep =>
          /\ (ret'.result = 1) <=> (ret'.arg \in LiveIds(mm))
          /\ (ret'.result = 0) <=> (ret'.arg \notin LiveIds(mm))
          /\ ret'.arg \notin LiveIds(mm) => mm' = mm]_vars

\* a second deallocate of an id that was issued and freed has been refused
\* while another block is still allocated
C25_Witness ==
    /\ ret.op = "deallocate" /\ ret.result = 0
    /\ ret.arg >= 1 /\ ret.arg < mm.next_block_id
    /\ LiveIds(mm) # {}
    /\ \E i \in DOMAIN mm.blocks : ~mm.blocks[i].is_allocated

(***************************************************************************)
(* PROPERTIES OF THE BUDDY ALLOCATOR                                       *)
(***************************************************************************)
Orders(b) == 0 .. b.max_order

\* the free blocks, each with the order of the list that holds it and its
\* place in that list
FreeEntries(b) ==
    {e \in [order : Orders(b), pos : 1 .. (b.total_memory \div b.min_block_size) + 1] :
        e.pos <= Len(b.free_lists[e.order + 1])}

FreeBlockOf(b, e) == b.free_lists[e.order + 1][e.pos]

\* C3: in every state reached by allocate/deallocate calls there is no
\* order k < max_order whose free list holds both a block at address a and
\* the block at a XOR (min_block_size * 2^k): two buddies of one parent
\* are never free at once.
C3_NoFreeBuddyPair ==
    \A k \in 0 .. buddy.max_order - 1 :
        \A i, j \in 1 .. Len(buddy.free_lists[k + 1]) :
            buddy.free_lists[k + 1][j].address
                # Xor(buddy.free_lists[k + 1][i].address, buddy.min_block_size * Pow2(k))

\* C4: in every reachable state every block of free_lists[k] has size
\* min_block_size * 2^k and an address that is a multiple of that size,
\* and every live record has an address that is a multiple of its
\* actual_size, for every allocator constructed with power-of-two
\* total_memory and min_block_size.
C4_SizesAndAlignment ==
    /\ \A e \in FreeEntries(buddy) :
          /\ FreeBlockOf(buddy, e).size = buddy.min_block_size * Pow2(e.order)
          /\ FreeBlockOf(buddy, e).address % (buddy.min_block_size * Pow2(e.order)) = 0
    /\ \A id \in DOMAIN buddy.allocated_blocks :
          buddy.allocated_blocks[id].address % buddy.allocated_blocks[id].actual_size = 0

\* the byte ranges the allocator accounts for: one per free block and one
\* per live record
Ranges(b) ==
    {[owner |-> <<"free", e.order, e.pos>>,
      from |-> FreeBlockOf(b, e).address,
      to |-> FreeBlockOf(b, e).address + FreeBlockOf(b, e).size] : e \in FreeEntries(b)}
    \cup
    {[owner |-> <<"record", id, 0>>,
      from |-> b.allocated_blocks[id].address,
      to |-> b.allocated_blocks[id].address + b.allocated_blocks[id].actual_size] :
         id \in DOMAIN b.allocated_blocks}

\* C5: in every reachable state the ranges [address, address + size) of the
\* free blocks and [address, address + actual_size) of the live records
\* are pairwise disjoint and cover exactly [0, total_memory), for every
\* allocator constructed with power-of-two total_memory and
\* min_block_size.
C5_Partition ==
    /\ \A r \in Ranges(buddy) : r.from < r.to /\ r.to <= buddy.total_memory
    /\ \A byte \in 0 .. buddy.total_memory - 1 :
          Cardinality({r \in Ranges(buddy) : r.from <= byte /\ byte < r.to}) = 1

\* a step of allocate(16) taken by the allocator `init memory 1024 buddy`
\* has just built
FreshAllocate16 ==
    /\ buddy = initializeMemory(SeedBuddyArena)
    /\ buddy'.total_allocations = buddy.total_allocations + 1
    /\ ret'.op = "allocate" /\ ret'.arg = 16

\* C14 as stated: allocate(16) on the fresh 1024/16 allocator succeeds,
\* takes splits from 0 to 6 and records address 0 for the block
C14_SixSplitsAtZero ==
    [][FreshAllocate16 =>
          /\ ret'.result \in DOMAIN buddy'.allocated_blocks
          /\ buddy.splits = 0 /\ buddy'.splits = 6
          /\ buddy'.allocated_blocks[ret'.result].address = 0]_vars

\* C14, amended: allocate(16) on the fresh 1024/16 allocator succeeds, takes
\* splits from 0 to 6 (one split at each of the orders 5 down to 0), and
\* records address 1008 for the block: each split leaves the upper half at
\* the head of its list, so the block handed out is the last 16 bytes of
\* the arena and the lower halves [0,512), [512,768), ... [992,1008) stay
\* free
C14_SixSplitsAt1008 ==
    [][FreshAllocate16 =>
          /\ ret'.result \in DOMAIN buddy'.allocated_blocks
          /\ buddy.splits = 0 /\ buddy'.splits = 6
          /\ buddy'.allocated_blocks[ret'.result] = AllocationRecord(1008, 16, 16, 0)
          /\ buddy'.free_lists =
                 <<<<BuddyBlock(992, 16)>>, <<BuddyBlock(960, 32)>>,
                   <<BuddyBlock(896, 64)>>, <<BuddyBlock(768, 128)>>,
                   <<BuddyBlock(512, 256)>>, <<BuddyBlock(0, 512)>>, <<>>>>]_vars

C14_Witness ==
    /\ ret.op = "allocate" /\ ret.arg = 16 /\ ret.result = 1
    /\ buddy.total_allocations = 1
    /\ buddy.splits = 6
    /\ buddy.allocated_blocks = (1 :> AllocationRecord(1008, 16, 16, 0))


\* a step of deallocate(id) that follows at once the successful allocate that
\* returned id; ret.before is the allocator as that allocate found it
RoundTripStep ==
    /\ ret.op = "allocate" /\ ret.result # -1
    /\ ret'.op = "deallocate" /\ ret'.arg = ret.result

\* C15: a successful allocate(s) followed at once by deallocate of the id it
\* returned restores free_lists (the same blocks at every order, in the same
\* list order), the allocation records and the internal-fragmentation
\* counter to what they were before the allocate, and performs as many
\* merges as the allocate performed splits.
C15_RoundTrip ==
    [][RoundTripStep =>
          /\ buddy'.free_lists = ret.before.free_lists
          /\ buddy'.allocated_blocks = ret.before.allocated_blocks
          /\ buddy'.total_internal_fragmentation =
                 ret.before.total_internal_fragmentation
          /\ buddy'.merges - buddy.merges = buddy.splits - ret.before.splits]_vars


\* C26: deallocate(block_id) of the buddy allocator returns true exactly
\* when block_id has an allocation record; for an id without one (never
\* issued, already freed) it returns false and leaves the free lists, the
\* records, merges, total_deallocations and the internal fragmentation as
\* they were.
C26_BuddyDeallocateUnknown ==
    [][IsDeallocateStep =>
          /\ (ret'.result = 1) <=> (ret'.arg \in DOMAIN buddy.allocated_blocks)
          /\ (ret'.result = 0) <=> (ret'.arg \notin DOMAIN buddy.allocated_blocks)
          /\ ret'.arg \notin DOMAIN buddy.allocated_blocks =>
                /\ buddy'.free_lists = buddy.free_lists
                /\ buddy'.allocated_blocks = buddy.allocated_blocks
                /\ buddy'.merges = buddy.merges
                /\ buddy'.total_deallocations = buddy.total_deallocations
                /\ buddy'.total_internal_fragmentation =
                       buddy.total_internal_fragmentation]_vars

\* a second deallocate of an id that was issued and freed has been refused
\* while another record is live
C26_Witness ==
    /\ ret.op = "deallocate" /\ ret.result = 0
    /\ ret.arg >= 1 /\ ret.arg < buddy.next_block_id
    /\ buddy.total_deallocations >= 1
    /\ DOMAIN buddy.allocated_blocks # {}

IsBuddyAllocateStep ==
    /\ ret'.op = "allocate"
    /\ buddy'.total_allocations = buddy.total_allocations + 1

\* no block is free at the order of requested_size or at any higher order
NoBlockFor(b, requested_size) ==
    \A o \in getOrder(b, nextPowerOfTwo(b, requested_size)) .. b.max_order :
        b.free_lists[o + 1] = <<>>

\* C27: allocate(requested_size) of the buddy allocator returns -1 exactly
\* when requested_size is 0, exceeds total_memory, or no block is free at
\* the required order or above; a failed allocate splits nothing and leaves
\* everything but total_allocations and failed_allocations, which it
\* increments, as it was; total_allocations is always successful_allocations
\* + failed_allocations.
C27_BuddyAllocateFailure ==
    [][/\ buddy'.total_allocations =
              buddy'.successful_allocations + buddy'.failed_allocations
       /\ IsBuddyAllocateStep =>
            LET fails == \/ ret'.arg = 0
                         \/ ret'.arg > buddy.total_memory
                         \/ NoBlockFor(buddy, ret'.arg)
            IN /\ (ret'.result = -1) <=> fails
               /\ fails => buddy' = [buddy EXCEPT !.total_allocations = @ + 1,
                                                  !.failed_allocations = @ + 1]]_vars

\* an allocate has failed for want of a free block, the request being one
\* the arena could have held
C27_Witness ==
    /\ ret.op = "allocate" /\ ret.result = -1
    /\ ret.arg >= 1 /\ ret.arg <= buddy.total_memory
    /\ buddy.failed_allocations >= 1 /\ buddy.successful_allocations >= 1
    /\ buddy.max_order >= 1
    /\ NoBlockFor(buddy, ret.arg)

\* the sum of actual_size - requested_size over the records with ids in ids
RECURSIVE SumOfFragmentation(_, _)
SumOfFragmentation(records, ids) ==
    IF ids = {} THEN 0
    ELSE LET id == CHOOSE i \in ids : TRUE
         IN (records[id].actual_size - records[id].requested_size)
                + SumOfFragmentation(records, ids \ {id})

\* the larger of requested_size and the minimum block size of b
AtLeastMinimum(b, requested_size) ==
    IF requested_size > b.min_block_size THEN requested_size ELSE b.min_block_size

\* C31: every record has actual_size the smallest min_block_size * 2^j that
\* is >= max(requested_size, min_block_size), order j, and actual_size <=
\* total_memory; total_internal_fragmentation is the sum of actual_size -
\* requested_size over the live records.
C31_Rounding ==
    /\ \A id \in DOMAIN buddy.allocated_blocks :
          LET record == buddy.allocated_blocks[id]
              least == AtLeastMinimum(buddy, record.requested_size)
          IN /\ record.actual_size = buddy.min_block_size * Pow2(record.order)
             /\ record.actual_size >= least
             /\ record.order > 0 =>
                    buddy.min_block_size * Pow2(record.order - 1) < least
             /\ record.actual_size <= buddy.total_memory
    /\ buddy.total_internal_fragmentation =
           SumOfFragmentation(buddy.allocated_blocks, DOMAIN buddy.allocated_blocks)

\* the lowest order from order up whose list of b is not empty
SourceOrder(b, order) ==
    CHOOSE k \in order .. b.max_order :
        /\ b.free_lists[k + 1] # <<>>
        /\ \A j \in order .. k - 1 : b.free_lists[j + 1] = <<>>

\* C35: the free lists are last in, first out.  A successful allocate takes
\* the head of the list of its order; when it has to split, it splits the
\* head of the lowest list that has a block, each split leaving the upper
\* half at the head, so that the block it takes is the topmost piece of the
\* block split and the lower halves stay behind, one per order.  A block
\* freed without a merge becomes the head of the list of its order.
C35_FreeListsLifo ==
    [][/\ (IsBuddyAllocateStep /\ ret'.result # -1) =>
            LET record == buddy'.allocated_blocks[ret'.result]
                order == record.order
                k == SourceOrder(buddy, order)
                source == Head(buddy.free_lists[k + 1])
            IN /\ record.address =
                      source.address + getBlockSize(buddy, k) - getBlockSize(buddy, order)
               /\ buddy'.free_lists[k + 1] = Tail(buddy.free_lists[k + 1])
               /\ \A j \in order .. k - 1 :
                      buddy'.free_lists[j + 1] =
                          <<BuddyBlock(source.address + getBlockSize(buddy, k)
                                           - getBlockSize(buddy, j + 1),
                                       getBlockSize(buddy, j))>>
       /\ (IsDeallocateStep /\ ret'.result = 1 /\ buddy'.merges = buddy.merges) =>
            LET record == buddy.allocated_blocks[ret'.arg]
            IN buddy'.free_lists =
                   [buddy.free_lists EXCEPT ![record.order + 1] =
                        <<BuddyBlock(record.address, record.actual_size)>> \o @]]_vars

\* a block has been freed without a merge onto a list that held a block
C35_Witness ==
    /\ ret.op = "deallocate" /\ ret.result = 1
    /\ buddy.merges = 0 /\ buddy.total_deallocations = 1
    /\ buddy.splits >= 2
    /\ \E o \in 0 .. buddy.max_order : Len(buddy.free_lists[o + 1]) >= 2

(***************************************************************************)
(* PROPERTIES OF THE VIRTUAL MEMORY                                        *)
(***************************************************************************)
Pages == 0 .. vm.num_virtual_pages - 1
Frames == 0 .. vm.num_physical_frames - 1

\* the valid pages that hold frame f
HoldersOf(f) ==
    {p \in Pages : vm.page_table[p + 1].valid /\ vm.page_table[p + 1].frame_number = f}

\* C6: in every state of a simulator, whatever its configuration, a frame is marked used exactly when
\* frame_to_page names a page for it, and exactly when some valid page has it
\* as its frame_number; that page is the one frame_to_page names, and it is
\* the only one; and an entry has frame_number -1 exactly when it is invalid.
C6_FramePageBijection ==
    /\ \A f \in Frames :
          /\ vm.frame_used[f + 1] <=> vm.frame_to_page[f + 1] # -1
          /\ vm.frame_used[f + 1] <=> HoldersOf(f) # {}
          /\ Cardinality(HoldersOf(f)) <= 1
          /\ vm.frame_used[f + 1] => HoldersOf(f) = {vm.frame_to_page[f + 1]}
    /\ \A p \in Pages :
          /\ vm.page_table[p + 1].frame_number = -1 <=> ~vm.page_table[p + 1].valid
          /\ vm.page_table[p + 1].valid => vm.page_table[p + 1].frame_number \in Frames

\* C7: page_hits + page_faults = total_accesses after any sequence of
\* translateAddress calls, whether the addresses are in range or not.
C7_HitsPlusFaults ==
    vm.page_hits + vm.page_faults = vm.total_accesses

\* a step of translateAddress, its virtual address being ret'.arg
IsTranslateStep ==
    /\ vm'.total_accesses = vm.total_accesses + 1
    /\ ret'.op = "translateAddress"

\* C22: translateAddress(va) with va < vm_size, with at least one frame, is
\* a hit exactly when the page va / page_size was resident before the call;
\* after it the page is resident in a frame f < num_physical_frames and the
\* address returned is f * page_size + va mod page_size; a fault adds one to
\* page_faults and one to disk_reads, a hit adds to neither.
C22_Translate ==
    [][(/\ IsTranslateStep
        /\ ret'.arg < vm.virtual_memory_size
        /\ vm.num_physical_frames >= 1) =>
          LET page == ret'.arg \div vm.page_size
              resident == vm.page_table[page + 1].valid
              entry == vm'.page_table[page + 1]
          IN /\ vm'.page_hits = vm.page_hits + Bit(resident)
             /\ vm'.page_faults = vm.page_faults + Bit(~resident)
             /\ vm'.disk_reads = vm.disk_reads + Bit(~resident)
             /\ entry.valid
             /\ entry.frame_number \in 0 .. vm.num_physical_frames - 1
             /\ vm'.frame_used[entry.frame_number + 1]
             /\ vm'.frame_to_page[entry.frame_number + 1] = page
             /\ ret'.result = (entry.frame_number * vm.page_size)
                                  + (ret'.arg % vm.page_size)]_vars


\* the pages resident in v, and the frames of v that are free
Resident(v) == {p \in 0 .. Len(v.page_table) - 1 : v.page_table[p + 1].valid}

FreeFrames(v) == {f \in 0 .. v.num_physical_frames - 1 : ~v.frame_used[f + 1]}

\* a step of translateAddress that is a page fault
IsFaultStep ==
    /\ IsTranslateStep
    /\ vm'.page_faults = vm.page_faults + 1

\* the age by which the policy of v picks its victim
VictimAge(v, p) ==
    IF v.policy = FIFO THEN v.page_table[p + 1].load_time
    ELSE v.page_table[p + 1].last_access_time

\* the third access of the example has been made: 4 pages, 2 frames, LRU,
\* pages 0, 1, 0 translated
ExampleBeforeFault ==
    /\ vm.num_virtual_pages = 4 /\ vm.num_physical_frames = 2 /\ vm.policy = LRU
    /\ vm.total_accesses = 3 /\ vm.page_hits = 1 /\ vm.page_faults = 2
    /\ Resident(vm) = {0, 1}
    /\ vm.page_table[1].last_access_time = 3
    /\ vm.page_table[2].last_access_time = 2

\* C23: a page fault takes the lowest-indexed free frame and evicts no page
\* when a frame is free; otherwise it evicts exactly one resident page, the
\* one of smallest load_time under FIFO and of smallest last_access_time
\* under LRU, and the faulting page takes its frame.  With 4 pages, 2 frames
\* and LRU, the accesses to pages 0, 1, 0, 2 evict page 1 and give
\* page_hits = 1, page_faults = 3, disk_reads = 3, disk_writes = 0.
C23_FaultHandling ==
    [][IsFaultStep =>
          LET page == ret'.arg \div vm.page_size
              evicted == {p \in Resident(vm) : ~vm'.page_table[p + 1].valid}
              frame == vm'.page_table[page + 1].frame_number
          IN /\ vm'.page_table[page + 1].valid
             /\ IF FreeFrames(vm) # {}
                THEN /\ evicted = {}
                     /\ frame \in FreeFrames(vm)
                     /\ \A f \in FreeFrames(vm) : frame <= f
                ELSE \E victim \in Resident(vm) :
                        /\ evicted = {victim}
                        /\ frame = vm.page_table[victim + 1].frame_number
                        /\ \A p \in Resident(vm) :
                              VictimAge(vm, victim) <= VictimAge(vm, p)
             /\ (ExampleBeforeFault /\ page = 2) =>
                    /\ evicted = {1}
                    /\ vm'.page_hits = 1 /\ vm'.page_faults = 3
                    /\ vm'.disk_reads = 3 /\ vm'.disk_writes = 0]_vars
\* C24: what a translation does to the counters does not depend on verbose:
\* a translation evicts at most one page, and the eviction adds one to
\* disk_writes when the page is dirty and nothing otherwise, whether or not
\* verbose is on; a translation that evicts no page leaves disk_writes alone.
C24_VerboseIndependence ==
    [][IsTranslateStep =>
          LET evicted == {p \in Resident(vm) : ~vm'.page_table[p + 1].valid}
          IN /\ vm'.disk_writes - vm.disk_writes \in {0, 1}
             /\ evicted = {} => vm'.disk_writes = vm.disk_writes]_vars



\* C40: for every address translateAddress accepts (va < vm_size) the page
\* number va / page_size is an index of the page table, that is, less than
\* num_virtual_pages = vm_size / page_size.
C40_PageIndexInTable ==
    [][(IsTranslateStep /\ ret'.arg < vm.virtual_memory_size) =>
          ret'.arg \div vm.page_size < vm.num_virtual_pages]_vars


(***************************************************************************)
(* PROPERTIES OF THE CACHE                                                 *)
(***************************************************************************)
\* the lines of a level c, as <<set, way>> pairs
LinesOf(c) == {<<set, way>> \in (1 .. c.num_sets) \X (1 .. c.ways) : TRUE}

\* C8: on a level whose write policy is WRITE_THROUGH, after any sequence of
\* read, write, insert (is_dirty true or false), evict and clear calls no
\* line is dirty and the writebacks counter is 0.
C8_WriteThroughClean ==
    cache.write_policy = WRITE_THROUGH =>
        /\ \A l \in LinesOf(cache) : ~cache.cache[l[1]][l[2]].dirty
        /\ cache.writebacks = 0

\* a write-through level that has seen a write hit and a write miss has just
\* been given a block, flagged dirty, in place of a valid line
C8_Witness ==
    /\ cache.write_policy = WRITE_THROUGH
    /\ cache.write_hits >= 1
    /\ cache.write_misses >= 1
    /\ ret.op = "insert"
    /\ ret.is_dirty
    /\ cache.next_insertion_order > cache.capacity
    /\ \E l \in LinesOf(cache) :
          /\ cache.cache[l[1]][l[2]].valid
          /\ cache.cache[l[1]][l[2]].insertion_order = cache.next_insertion_order - 1

\* C9: in every state of a hierarchy, hits + misses of each level it has is
\* the number of read and write calls made on that level; for L1 that is
\* total_accesses; total_accesses = total_reads + total_writes; and
\* total_accesses = l1_hits + l2_hits + l3_hits + memory_accesses.
C9_Accounting ==
    /\ hier.l1.hits + hier.l1.misses = probes.l1
    /\ hier.has_l2 => hier.l2.hits + hier.l2.misses = probes.l2
    /\ hier.has_l3 => hier.l3.hits + hier.l3.misses = probes.l3
    /\ probes.l1 = hier.total_accesses
    /\ hier.total_accesses = hier.total_reads + hier.total_writes
    /\ hier.total_accesses =
          hier.l1_hits + hier.l2_hits + hier.l3_hits + hier.memory_accesses

\* a three-level hierarchy that has served reads and writes from L1, from L3
\* and from memory, L3 having been probed less often than L1
C9_Witness ==
    /\ hier.has_l2 /\ hier.has_l3
    /\ hier.l1_hits >= 1
    /\ hier.l3_hits >= 1
    /\ hier.memory_accesses >= 1
    /\ hier.total_reads >= 1
    /\ hier.total_writes >= 1
    /\ probes.l3 < probes.l1

(***************************************************************************)
(* PROPERTIES OF THE CACHE HIERARCHY                                       *)
(***************************************************************************)
\* whether level c holds the block of address in a valid line
Holds(c, address) ==
    \E way \in 1 .. c.ways :
        /\ c.cache[getSetIndex(c, address) + 1][way].valid
        /\ c.cache[getSetIndex(c, address) + 1][way].tag = getTag(c, address)

\* the third read of the example: read 0 and read 64 have both gone to
\* memory, read 64 was the last call, and now comes read 0
ThirdReadStep ==
    /\ hier.total_accesses = 2 /\ hier.total_reads = 2
    /\ hier.memory_accesses = 2 /\ hier.l1_hits = 0
    /\ ret = [op |-> "hierarchy read", arg |-> 64, result |-> 1]
    /\ ret'.op = "hierarchy read" /\ ret'.arg = 0

\* C17 as stated: with L1 = 1 line, L2 = 2 lines, L3 = 4 lines of 64 bytes,
\* all write-back, read 0; read 64; read 0 ends with l1_hits = 0, l2_hits = 1,
\* memory_accesses = 2, total_penalty_cycles = 233 and block 0 valid in L1
C17_ThreeReads233 ==
    [][ThirdReadStep =>
          /\ hier'.l1_hits = 0 /\ hier'.l2_hits = 1 /\ hier'.memory_accesses = 2
          /\ hier'.total_penalty_cycles = 233
          /\ Holds(hier'.l1, 0)]_vars

\* C17, amended: the same sequence ends with l1_hits = 0, l2_hits = 1,
\* memory_accesses = 2 and block 0 valid in L1, and with
\* total_penalty_cycles = 161 + 161 + 11 = 333: each of the two reads that go
\* to memory passes three levels and costs 1 + 10 + 50 + 100, and the read
\* that hits L2 costs 1 + 10
C17_ThreeReads333 ==
    [][ThirdReadStep =>
          /\ hier.total_penalty_cycles = 322
          /\ ret'.result = 0
          /\ hier'.l1_hits = 0 /\ hier'.l2_hits = 1 /\ hier'.memory_accesses = 2
          /\ hier'.total_penalty_cycles = 333
          /\ Holds(hier'.l1, 0)]_vars

C17_Witness ==
    /\ ret = [op |-> "hierarchy read", arg |-> 0, result |-> 0]
    /\ hier.total_accesses = 3 /\ hier.total_reads = 3
    /\ hier.l1_hits = 0 /\ hier.l2_hits = 1 /\ hier.memory_accesses = 2
    /\ hier.total_penalty_cycles = 333
    /\ Holds(hier.l1, 0) /\ Holds(hier.l2, 64)

\* a step of the hierarchy's read(address), and the level that satisfies it:
\* the first present level that holds the block, 0 when none does
IsHierReadStep ==
    /\ hier'.total_reads = hier.total_reads + 1
    /\ ret'.op = "hierarchy read"

ServingLevel(h, address) ==
    IF Holds(h.l1, address) THEN 1
    ELSE IF h.has_l2 /\ Holds(h.l2, address) THEN 2
    ELSE IF h.has_l3 /\ Holds(h.l3, address) THEN 3
    ELSE 0

IsHierWriteStep ==
    /\ hier'.total_writes = hier.total_writes + 1
    /\ ret'.op = "hierarchy write"

\* C19: with L1 write-through every hierarchy write adds one to
\* memory_writes, whichever level satisfies it, so that memory_writes =
\* total_writes; with L1 write-back no write changes memory_writes; no read
\* changes it; and a write that misses every level adds one to
\* memory_accesses under either policy (a write satisfied by a level adds
\* none).
C19_MemoryWrites ==
    [][/\ IsHierWriteStep =>
            /\ hier'.memory_writes =
                   hier.memory_writes + Bit(hier.l1.write_policy = WRITE_THROUGH)
            /\ hier'.memory_accesses =
                   hier.memory_accesses + Bit(ServingLevel(hier, ret'.arg) = 0)
            /\ ret'.result = Bit(ServingLevel(hier, ret'.arg) = 0)
       /\ IsHierReadStep => hier'.memory_writes = hier.memory_writes
       /\ hier'.l1.write_policy = WRITE_THROUGH =>
              hier'.memory_writes = hier'.total_writes
       /\ hier'.l1.write_policy = WRITE_BACK => hier'.memory_writes = 0]_vars

\* under a write-through L1, three writes: one went to memory for its block
\* and one was satisfied below L1, and each has been counted
C19_Witness ==
    /\ ret.op = "hierarchy write" /\ ret.result = 0
    /\ hier.l1.write_policy = WRITE_THROUGH
    /\ hier.total_writes = 3 /\ hier.memory_writes = 3
    /\ hier.memory_accesses >= 1
    /\ hier.l2_hits + hier.l3_hits >= 1

\* whether level c holds the block of address in a valid line that is dirty
HoldsDirty(c, address) ==
    \E way \in 1 .. c.ways :
        /\ c.cache[getSetIndex(c, address) + 1][way].valid
        /\ c.cache[getSetIndex(c, address) + 1][way].tag = getTag(c, address)
        /\ c.cache[getSetIndex(c, address) + 1][way].dirty

\* the levels of h that are present
PresentLevels(h) ==
    {h.l1} \cup (IF h.has_l2 THEN {h.l2} ELSE {}) \cup (IF h.has_l3 THEN {h.l3} ELSE {})

\* C20: after a hierarchy write that misses every present level, each
\* present level holds the written block, and its line there is dirty
\* exactly when L1's policy and the level's own policy are both write-back;
\* with a write-through L1 it is clean at every level.
C20_DirtyAfterWriteMiss ==
    [][(IsHierWriteStep /\ ServingLevel(hier, ret'.arg) = 0) =>
          \A level \in PresentLevels(hier') :
              /\ Holds(level, ret'.arg)
              /\ HoldsDirty(level, ret'.arg) <=>
                     /\ hier.l1.write_policy = WRITE_BACK
                     /\ level.write_policy = WRITE_BACK]_vars

\* the hierarchy built for the line counts sh[1], sh[2], sh[3] of a shape
Built(sh) ==
    CacheHierarchy(LevelArgs(sh[1], sh[4], sh[5], FIFO, WRITE_BACK),
                   LevelArgs(sh[2], sh[4], sh[5], FIFO, WRITE_BACK),
                   LevelArgs(sh[3], sh[4], sh[5], FIFO, WRITE_BACK))

\* the levels of h that exist, by number
LevelsOf(h) ==
    {1} \cup (IF h.has_l2 THEN {2} ELSE {}) \cup (IF h.has_l3 THEN {3} ELSE {})

IsInstallStep ==
    /\ ret'.op \in {"write", "insert"}
    /\ cache'.next_insertion_order = cache.next_insertion_order + 1
    /\ ~Holds(cache, ret'.arg)

\* the age by which the policy of c picks its victim among the ways of set
LineAge(c, set, way) ==
    IF c.replacement_policy = FIFO THEN c.cache[set][way].insertion_order
    ELSE c.cache[set][way].last_access_time

\* C32: a line is installed in the lowest-indexed invalid way of its set if
\* the set has one, and no valid line is replaced then; in a full set it
\* replaces the way of smallest insertion_order under FIFO and of smallest
\* last_access_time under LRU; hits never change insertion_order.
C32_VictimSelection ==
    [][/\ IsInstallStep =>
            LET set == getSetIndex(cache, ret'.arg) + 1
                invalid == {w \in 1 .. cache.ways : ~cache.cache[set][w].valid}
                written == {w \in 1 .. cache.ways :
                               cache'.cache[set][w] # cache.cache[set][w]}
            IN \E victim \in 1 .. cache.ways :
                  /\ written = {victim}
                  /\ cache'.cache[set][victim].valid
                  /\ cache'.cache[set][victim].tag = getTag(cache, ret'.arg)
                  /\ IF invalid # {}
                     THEN victim \in invalid /\ \A w \in invalid : victim <= w
                     ELSE \A w \in 1 .. cache.ways :
                             LineAge(cache, set, victim) <= LineAge(cache, set, w)
       /\ (ret'.op \in {"read", "write", "insert"} /\ Holds(cache, ret'.arg)) =>
            \A l \in LinesOf(cache) :
                cache'.cache[l[1]][l[2]].insertion_order =
                    cache.cache[l[1]][l[2]].insertion_order]_vars

\* a line has been installed in a full set of two ways under LRU, over the
\* way filled last: the way filled first had been hit since
C32_Witness ==
    /\ ret.op \in {"write", "insert"}
    /\ cache.ways = 2 /\ cache.replacement_policy = LRU
    /\ cache.next_insertion_order = 3
    /\ cache.cache[1][1].valid /\ cache.cache[1][2].valid
    /\ cache.cache[1][2].tag = getTag(cache, ret.arg)
    /\ cache.cache[1][2].insertion_order = 2
    /\ cache.cache[1][1].insertion_order = 0

\* C33: the valid lines of a set have pairwise distinct insertion_order and
\* pairwise distinct last_access_time, so that the FIFO or LRU victim of a
\* full set is the only line of smallest age.
C33_VictimUnique ==
    \A set \in 1 .. cache.num_sets : \A w1, w2 \in 1 .. cache.ways :
        (w1 # w2 /\ cache.cache[set][w1].valid /\ cache.cache[set][w2].valid) =>
            /\ cache.cache[set][w1].insertion_order #
                   cache.cache[set][w2].insertion_order
            /\ cache.cache[set][w1].last_access_time #
                   cache.cache[set][w2].last_access_time

\* a set holds two valid lines, and the one installed first was used last
C33_Witness ==
    /\ cache.ways = 2
    /\ cache.cache[1][1].valid /\ cache.cache[1][2].valid
    /\ cache.cache[1][1].insertion_order < cache.cache[1][2].insertion_order
    /\ cache.cache[1][1].last_access_time > cache.cache[1][2].last_access_time

IsLevelWriteStep ==
    /\ ret'.op = "write"
    /\ cache'.writes = cache.writes + 1

\* the lines of c that are valid and dirty, and are not so in d
DirtyLinesLost(c, d) ==
    {l \in LinesOf(c) :
        /\ c.cache[l[1]][l[2]].valid /\ c.cache[l[1]][l[2]].dirty
        /\ \/ ~d.cache[l[1]][l[2]].valid
           \/ d.cache[l[1]][l[2]].tag # c.cache[l[1]][l[2]].tag}

\* the level of the example after write 0: direct-mapped, 4 lines, 64-byte
\* blocks, write-back
AfterWriteZero ==
    /\ cache.capacity = 4 /\ cache.block_size = 64 /\ cache.ways = 1
    /\ cache.write_policy = WRITE_BACK
    /\ cache.access_counter = 1 /\ cache.writes = 1 /\ cache.writebacks = 0
    /\ HoldsDirty(cache, 0)

\* C34: on a WRITE_BACK level a write leaves the block of its address valid
\* and dirty, hit or miss; writebacks increases by one exactly when a call
\* replaces or evicts a valid dirty line, and by nothing otherwise.  On the
\* direct-mapped level of 4 lines and 64-byte blocks, write 0 then write 256
\* gives writebacks = 1 with block 256 resident and dirty.
C34_Writebacks ==
    [][cache.write_policy = WRITE_BACK =>
          /\ IsLevelWriteStep => HoldsDirty(cache', ret'.arg)
          /\ ret'.op \in {"read", "write", "insert", "evict"} =>
                cache'.writebacks =
                    cache.writebacks + Cardinality(DirtyLinesLost(cache, cache'))
          /\ (AfterWriteZero /\ IsLevelWriteStep /\ ret'.arg = 256) =>
                /\ cache'.writebacks = 1
                /\ HoldsDirty(cache', 256)
                /\ ~Holds(cache', 0)]_vars

\* the second write of the example has been made
C34_Witness ==
    /\ cache.capacity = 4 /\ cache.block_size = 64 /\ cache.ways = 1
    /\ cache.write_policy = WRITE_BACK
    /\ ret.op = "write" /\ ret.arg = 256
    /\ cache.access_counter = 2 /\ cache.writes = 2 /\ cache.writebacks = 1
    /\ HoldsDirty(cache, 256)

\* C38: no set holds two valid lines with the same tag: a block is resident
\* in at most one way of a level.
C38_TagUnique ==
    \A set \in 1 .. cache.num_sets : \A w1, w2 \in 1 .. cache.ways :
        (w1 # w2 /\ cache.cache[set][w1].valid /\ cache.cache[set][w2].valid) =>
            cache.cache[set][w1].tag # cache.cache[set][w2].tag

\* a set of two ways is full, and the block of way 2 has been written or
\* inserted again since
C38_Witness ==
    /\ cache.ways = 2
    /\ cache.cache[1][1].valid /\ cache.cache[1][2].valid
    /\ cache.next_insertion_order = 2 /\ cache.access_counter = 3
    /\ ret.op \in {"write", "insert"}
    /\ cache.cache[1][2].tag = getTag(cache, ret.arg)

\* a read of one level
IsLevelReadStep ==
    /\ ret'.op = "read"
    /\ cache'.access_counter = cache.access_counter + 1

\* C29: read(address) on a level inserts nothing: hit or miss, every line
\* keeps its valid, tag, dirty and insertion_order; the call changes only
\* the access counter, hits (on a hit) or misses (on a miss), and, on a hit
\* under LRU, the last_access_time of the line that matched.
C29_ReadNeverInserts ==
    [][IsLevelReadStep =>
          LET hit == Holds(cache, ret'.arg)
              set_index == getSetIndex(cache, ret'.arg)
          IN /\ \A l \in LinesOf(cache) :
                  LET old == cache.cache[l[1]][l[2]]
                      new == cache'.cache[l[1]][l[2]]
                      matched == /\ l[1] = set_index + 1
                                 /\ old.valid /\ old.tag = getTag(cache, ret'.arg)
                  IN /\ new.valid = old.valid /\ new.tag = old.tag
                     /\ new.dirty = old.dirty
                     /\ new.insertion_order = old.insertion_order
                     /\ new.last_access_time # old.last_access_time =>
                            matched /\ cache.replacement_policy = LRU
             /\ ret'.result = Bit(hit)
             /\ cache'.hits = cache.hits + Bit(hit)
             /\ cache'.misses = cache.misses + Bit(~hit)
             /\ cache' = [cache EXCEPT !.cache = cache'.cache,
                                       !.access_counter = @ + 1,
                                       !.hits = cache'.hits,
                                       !.misses = cache'.misses]]_vars

\* a read has missed on a level that holds another block, and the block read
\* is still not held
C29_Witness ==
    /\ ret.op = "read" /\ ret.result = 0
    /\ ~Holds(cache, ret.arg)
    /\ \E l \in LinesOf(cache) : cache.cache[l[1]][l[2]].valid
    /\ cache.misses >= 1


\* level n of h
LevelOf(h, n) == IF n = 1 THEN h.l1 ELSE IF n = 2 THEN h.l2 ELSE h.l3

\* C36: when a hierarchy read or write of an address returns, the block of
\* the address is valid in L1; after a hit at level k > 1 it is valid in
\* every present level from 1 to k, and after a miss of every level it is
\* valid in every present level.
C36_Refill ==
    [][(IsHierReadStep \/ IsHierWriteStep) =>
          LET k == ServingLevel(hier, ret'.arg)
          IN /\ Holds(hier'.l1, ret'.arg)
             /\ \A n \in LevelsOf(hier') :
                   (k = 0 \/ n <= k) => Holds(LevelOf(hier', n), ret'.arg)]_vars

\* a read has hit in L3 under an L2, and L1, L2 and L3 hold its block
C36_Witness ==
    /\ ret.op = "hierarchy read"
    /\ LevelsOf(hier) = {1, 2, 3}
    /\ hier.l3_hits >= 1 /\ hier.l2_hits = 0 /\ hier.l1_hits = 0
    /\ hier.total_accesses = 3
    /\ \A n \in LevelsOf(hier) : Holds(LevelOf(hier, n), ret.arg)


\* C37: one hierarchy read or write probes L1; it probes L2 only if L1
\* missed and L3 only if every present level above it missed.  An access
\* that hits in L1 leaves L2 and L3, lines and counters, as they were, and
\* one that hits in L2 leaves L3 as it was.
C37_ProbeOrder ==
    [][(IsHierReadStep \/ IsHierWriteStep) =>
          LET k == ServingLevel(hier, ret'.arg)
          IN /\ probes'.l1 = probes.l1 + 1
             /\ probes'.l2 = probes.l2 + Bit(hier.has_l2 /\ k # 1)
             /\ probes'.l3 = probes.l3 + Bit(hier.has_l3 /\ k \notin {1, 2})
             /\ k = 1 => hier'.l2 = hier.l2 /\ hier'.l3 = hier.l3
             /\ k = 2 => hier'.l3 = hier.l3]_vars

\* a write has hit in L1 of a hierarchy of three levels, after accesses that
\* went to L2 and L3
C37_Witness ==
    /\ ret.op = "hierarchy write" /\ ret.result = 0
    /\ LevelsOf(hier) = {1, 2, 3}
    /\ hier.l1_hits >= 1
    /\ probes.l1 > probes.l2 /\ probes.l2 >= 1 /\ probes.l3 >= 1


(***************************************************************************)
(* PROPERTIES OF THE TWO ALLOCATORS                                        *)
(***************************************************************************)
IsClassicAllocateStep ==
    /\ ret'.op = "allocate"
    /\ mm'.allocation_attempts = mm.allocation_attempts + 1

\* the blocks of m that are allocated
AllocatedBlocks(m) == {i \in DOMAIN m.blocks : m.blocks[i].is_allocated}

\* C30: in each allocator the k-th successful allocate returns k; a failed
\* allocate takes no id; the ids in use are distinct, each was issued, and
\* an id once issued is not issued again.
C30_BlockIds ==
    [][/\ IsClassicAllocateStep =>
            IF ret'.result = -1
            THEN mm'.next_block_id = mm.next_block_id
            ELSE /\ ret'.result = mm.allocation_successes + 1
                 /\ ret'.result \notin LiveIds(mm)
                 /\ LiveIds(mm') = LiveIds(mm) \cup {ret'.result}
                 /\ mm'.next_block_id = ret'.result + 1
       /\ IsBuddyAllocateStep =>
            IF ret'.result = -1
            THEN buddy'.next_block_id = buddy.next_block_id
            ELSE /\ ret'.result = buddy.successful_allocations + 1
                 /\ ret'.result \notin DOMAIN buddy.allocated_blocks
                 /\ DOMAIN buddy'.allocated_blocks =
                        DOMAIN buddy.allocated_blocks \cup {ret'.result}
                 /\ buddy'.next_block_id = ret'.result + 1
       /\ mm'.next_block_id = mm'.allocation_successes + 1
       /\ buddy'.next_block_id = buddy'.successful_allocations + 1
       /\ LiveIds(mm') \subseteq 1 .. mm'.next_block_id - 1
       /\ DOMAIN buddy'.allocated_blocks \subseteq 1 .. buddy'.next_block_id - 1
       /\ Cardinality(LiveIds(mm')) = Cardinality(AllocatedBlocks(mm'))]_vars

\* each allocator has failed once, issued ids 1 and 2, and freed id 1
C30_Witness ==
    /\ mm.allocation_failures >= 1 /\ mm.next_block_id = 3
    /\ LiveIds(mm) = {2}
    /\ buddy.failed_allocations >= 1 /\ buddy.next_block_id = 3
    /\ DOMAIN buddy.allocated_blocks = {2}


(***************************************************************************)
(* PROPERTIES OF THE UNIFIED MEMORY SYSTEM                                 *)
(***************************************************************************)
IsAccessStep ==
    /\ ret'.op = "accessMemory"
    /\ vm'.total_accesses = vm.total_accesses + 1

\* C28: accessMemory with the virtual memory enabled.  An address at or
\* beyond vm_size fails to translate and the access ends there: no level is
\* probed, the hierarchy, the page table and the frame table are as they
\* were.  An address below vm_size translates, and the hierarchy is then
\* read or written at the physical address of its page's frame.
C28_TranslateThenProbe ==
    [][IsAccessStep =>
          LET page == ret'.arg \div vm.page_size
              entry == vm'.page_table[page + 1]
              physical_address == (entry.frame_number * vm.page_size)
                                      + (ret'.arg % vm.page_size)
          IN IF ret'.arg >= vm.virtual_memory_size
             THEN /\ hier' = hier
                  /\ probes' = probes
                  /\ vm'.page_table = vm.page_table
                  /\ vm'.frame_to_page = vm.frame_to_page
                  /\ vm'.frame_used = vm.frame_used
             ELSE /\ entry.valid
                  /\ ret'.result = physical_address
                  /\ probes'.l1 = probes.l1 + 1
                  /\ hier' = IF ret'.is_write
                             THEN Hierarchy_write(hier, physical_address).h
                             ELSE Hierarchy_read(hier, physical_address).h]_vars

\* C39: nothing sets the dirty bit of a page-table entry: in every state,
\* write accesses through accessMemory included, every entry of the page
\* table has dirty = false and disk_writes is 0, so that no eviction counts
\* a disk write.
C39_NeverDirty ==
    /\ \A p \in 1 .. vm.num_virtual_pages : ~vm.page_table[p].dirty
    /\ vm.disk_writes = 0

=============================================================================
